---- MODULE Spec2Model ----
(***************************************************************************)
(* Model of the template engine (.template/scripts/bootstrap/              *)
(* template_engine.py).  Texts are strings; the regular expressions of the *)
(* engine are modelled character by character.                             *)
(***************************************************************************)
EXTENDS Integers, Sequences, FiniteSets, TLC

(***************************************************************************)
(* Characters and string helpers                                           *)
(***************************************************************************)
UPPER ==
    {"A", "B", "C", "D", "E", "F", "G", "H", "I", "J", "K", "L", "M",
     "N", "O", "P", "Q", "R", "S", "T", "U", "V", "W", "X", "Y", "Z"}

DIGIT == {"0", "1", "2", "3", "4", "5", "6", "7", "8", "9"}

\* [A-Z_] of the conditional pattern
CondNameChar == UPPER \cup {"_"}

\* [A-Z0-9_] of the variable pattern
VarNameChar == UPPER \cup DIGIT \cup {"_"}

\* the characters str.rstrip() / str.strip() remove
WHITESPACE == {" ", "\t", "\n", "\r", "\f"}

CharAt(s, i) == SubSeq(s, i, i)

\* the literal lit occurs in s at position i
At(s, i, lit) ==
    /\ i >= 1
    /\ i + Len(lit) - 1 <= Len(s)
    /\ SubSeq(s, i, i + Len(lit) - 1) = lit

\* Searches and character maps split their range in halves, so that their
\* evaluation depth is logarithmic in the length of the text.
\* first k in lo..hi with P(k), 0 when there is none
RECURSIVE First(_, _, _)
First(P(_), lo, hi) ==
    IF lo > hi THEN 0
    ELSE IF lo = hi THEN (IF P(lo) THEN lo ELSE 0)
    ELSE LET mid == (lo + hi) \div 2
             l   == First(P, lo, mid)
         IN  IF l # 0 THEN l ELSE First(P, mid + 1, hi)

\* last k in lo..hi with P(k), 0 when there is none
RECURSIVE Last(_, _, _)
Last(P(_), lo, hi) ==
    IF lo > hi THEN 0
    ELSE IF lo = hi THEN (IF P(lo) THEN lo ELSE 0)
    ELSE LET mid == (lo + hi) \div 2
             r   == Last(P, mid + 1, hi)
         IN  IF r # 0 THEN r ELSE Last(P, lo, mid)

\* the concatenation of F(c) for the characters c of s[lo..hi]
RECURSIVE MapChars(_, _, _, _)
MapChars(F(_), s, lo, hi) ==
    IF lo > hi THEN ""
    ELSE IF lo = hi THEN F(CharAt(s, lo))
    ELSE LET mid == (lo + hi) \div 2
         IN  MapChars(F, s, lo, mid) \o MapChars(F, s, mid + 1, hi)

\* first position after the maximal run of characters of class that starts at i
RunEnd(s, i, class) ==
    LET k == First(LAMBDA j : CharAt(s, j) \notin class, i, Len(s))
    IN  IF k = 0 THEN (IF i > Len(s) THEN i ELSE Len(s) + 1) ELSE k

\* position of the first occurrence of lit in s at or after i, 0 when there is none
Find(s, i, lit) == First(LAMBDA k : At(s, k, lit), i, Len(s) - Len(lit) + 1)

\* number of (non-overlapping) occurrences of lit in s at or after i
RECURSIVE CountFrom(_, _, _)
CountFrom(s, i, lit) ==
    LET k == Find(s, i, lit)
    IN  IF k = 0 THEN 0 ELSE 1 + CountFrom(s, k + Len(lit), lit)

Contains(s, lit) == Find(s, 1, lit) # 0

\* dict.get(key, default)
Get(d, key, default) == IF key \in DOMAIN d THEN d[key] ELSE default

LowerOf ==
    [c \in UPPER |->
        CASE c = "A" -> "a" [] c = "B" -> "b" [] c = "C" -> "c" [] c = "D" -> "d"
          [] c = "E" -> "e" [] c = "F" -> "f" [] c = "G" -> "g" [] c = "H" -> "h"
          [] c = "I" -> "i" [] c = "J" -> "j" [] c = "K" -> "k" [] c = "L" -> "l"
          [] c = "M" -> "m" [] c = "N" -> "n" [] c = "O" -> "o" [] c = "P" -> "p"
          [] c = "Q" -> "q" [] c = "R" -> "r" [] c = "S" -> "s" [] c = "T" -> "t"
          [] c = "U" -> "u" [] c = "V" -> "v" [] c = "W" -> "w" [] c = "X" -> "x"
          [] c = "Y" -> "y" [] c = "Z" -> "z"]

\* str.lower()
Lower(s) == MapChars(LAMBDA c : IF c \in UPPER THEN LowerOf[c] ELSE c, s, 1, Len(s))

\* str.rstrip()
RStrip(s) ==
    SubSeq(s, 1, Last(LAMBDA k : CharAt(s, k) \notin WHITESPACE, 1, Len(s)))

\* str.lstrip()
LStrip(s) ==
    LET k == First(LAMBDA j : CharAt(s, j) \notin WHITESPACE, 1, Len(s))
    IN  IF k = 0 THEN "" ELSE SubSeq(s, k, Len(s))

\* str.replace(old, "") for a one-character old
Remove(s, old) == MapChars(LAMBDA c : IF c = old THEN "" ELSE c, s, 1, Len(s))

\* str.split(sep) for a one-character sep: the sequence of the parts
RECURSIVE Split(_, _)
Split(s, sep) ==
    LET k == Find(s, 1, sep)
    IN  IF k = 0 THEN <<s>>
        ELSE <<SubSeq(s, 1, k - 1)>> \o Split(SubSeq(s, k + 1, Len(s)), sep)

\* sep.join(parts)
RECURSIVE Join(_, _)
Join(parts, sep) ==
    IF Len(parts) = 0 THEN ""
    ELSE IF Len(parts) = 1 THEN parts[1]
    ELSE parts[1] \o sep \o Join(Tail(parts), sep)

(***************************************************************************)
(* Variable definitions                                                    *)
(***************************************************************************)
\* VARIABLES: template variable name -> (env_var_name, default_value)
VariableDefs ==
    [PROJECT_NAME        |-> <<"PROJECT_NAME", "my-project">>,
     PROJECT_NAME_SNAKE  |-> <<"PROJECT_NAME_SNAKE", "my_project">>,
     PROJECT_NAME_KEBAB  |-> <<"PROJECT_NAME_KEBAB", "my-project">>,
     PROJECT_DESCRIPTION |-> <<"PROJECT_DESCRIPTION", "A new project">>,
     GITHUB_ORG          |-> <<"GITHUB_ORG", "myorg">>,
     PYTHON_VERSION      |-> <<"PYTHON_VERSION", "3.12">>,
     GO_VERSION          |-> <<"GO_VERSION", "1.22.0">>,
     NODE_VERSION        |-> <<"NODE_VERSION", "20">>,
     RUST_VERSION        |-> <<"RUST_VERSION", "stable">>,
     POSTGRES_VERSION    |-> <<"POSTGRES_VERSION", "16">>,
     REDIS_VERSION       |-> <<"REDIS_VERSION", "7">>,
     DB_NAME             |-> <<"DB_NAME", "app_dev">>,
     DB_USER             |-> <<"DB_USER", "app_user">>,
     DB_PASSWORD         |-> <<"DB_PASSWORD", "dev_password">>,
     COVERAGE_THRESHOLD  |-> <<"COVERAGE_THRESHOLD", "80">>]

\* the names compute_derived_variables adds
DerivedNames == {"PYTHON_VERSION_NODOT", "GO_VERSION_SHORT", "RUST_MSRV"}

\* compute_derived_variables with parts[:1] for parts[:2] and the channel
\* names compared without regard to case
compute_derived_variables_first_part(base_vars) ==
    LET py_ver   == Get(base_vars, "PYTHON_VERSION", "3.12")
        go_ver   == Get(base_vars, "GO_VERSION", "1.22.0")
        parts    == Split(go_ver, ".")
        rust_ver == Get(base_vars, "RUST_VERSION", "stable")
    IN  [PYTHON_VERSION_NODOT |-> Remove(py_ver, "."),
         GO_VERSION_SHORT     |-> IF Len(parts) >= 2
                                  THEN Join(SubSeq(parts, 1, 1), ".")
                                  ELSE go_ver,
         RUST_MSRV            |-> IF Lower(rust_ver) \in {"stable", "nightly", "beta"}
                                  THEN "1.75"
                                  ELSE rust_ver]

compute_derived_variables(base_vars) ==
    LET py_ver   == Get(base_vars, "PYTHON_VERSION", "3.12")
        go_ver   == Get(base_vars, "GO_VERSION", "1.22.0")
        parts    == Split(go_ver, ".")
        rust_ver == Get(base_vars, "RUST_VERSION", "stable")
    IN  [PYTHON_VERSION_NODOT |-> Remove(py_ver, "."),
         GO_VERSION_SHORT     |-> IF Len(parts) >= 2
                                  THEN Join(SubSeq(parts, 1, 2), ".")
                                  ELSE go_ver,
         RUST_MSRV            |-> IF rust_ver \in {"stable", "nightly", "beta"}
                                  THEN "1.75"
                                  ELSE rust_ver]

\* base_value with `os.environ.get(env_name) or default`: an empty value
\* falls back to the default
base_value_or_default(env, var_name) ==
    IF Get(env, VariableDefs[var_name][1], "") = ""
    THEN VariableDefs[var_name][2]
    ELSE env[VariableDefs[var_name][1]]

\* the value load_variables reads for one declared variable
base_value(env, var_name) ==
    Get(env, VariableDefs[var_name][1], VariableDefs[var_name][2])

\* load_variables with the derived variables computed before the loop over
\* VARIABLES has filled base_vars
load_variables_derived_first(env) ==
    LET base_vars == [var_name \in DOMAIN VariableDefs |-> base_value(env, var_name)]
        derived   == compute_derived_variables(<<>>)
    IN  [n \in DOMAIN base_vars \cup DOMAIN derived |->
            IF n \in DOMAIN derived THEN derived[n] ELSE base_vars[n]]

\* TemplateEngine._load_variables: base variables from the environment, then
\* base_vars.update(derived)
load_variables(env) ==
    LET base_vars == [var_name \in DOMAIN VariableDefs |-> base_value(env, var_name)]
        derived   == compute_derived_variables(base_vars)
    IN  [n \in DOMAIN base_vars \cup DOMAIN derived |->
            IF n \in DOMAIN derived THEN derived[n] ELSE base_vars[n]]

(***************************************************************************)
(* Condition definitions                                                   *)
(***************************************************************************)
\* int(s) of Python for the ASCII inputs: surrounding whitespace, an optional
\* sign, digits with single underscores between them.  ok = FALSE is ValueError.
IsDigits(s) ==
    /\ s # ""
    /\ \A k \in 1..Len(s) :
          \/ CharAt(s, k) \in DIGIT
          \/ /\ CharAt(s, k) = "_"
             /\ k > 1 /\ k < Len(s)
             /\ CharAt(s, k - 1) \in DIGIT
             /\ CharAt(s, k + 1) \in DIGIT

ParseInt(s) ==
    LET t      == RStrip(LStrip(s))
        signed == t # "" /\ CharAt(t, 1) \in {"+", "-"}
        body   == IF signed THEN Tail(t) ELSE t
        ok     == IsDigits(body)
        zero   == Remove(Remove(body, "0"), "_") = ""
    IN  [ok  |-> ok,
         sgn |-> IF ~ok \/ zero THEN 0
                 ELSE IF signed /\ CharAt(t, 1) = "-" THEN -1 ELSE 1]

\* env_is_true that strips the whitespace around the value
env_is_true_stripped(env, var_name) ==
    Lower(RStrip(LStrip(Get(env, var_name, "false")))) = "true"

\* the lambda built by _env_is_true(var_name), called under environment env
env_is_true(env, var_name) == Lower(Get(env, var_name, "false")) = "true"

coverage_enabled(env) ==
    LET n == ParseInt(Get(env, "COVERAGE_THRESHOLD", "0"))
    IN  IF n.ok THEN n.sgn > 0 ELSE FALSE

\* has_services with `and` for `or`
has_services_all(env) ==
    /\ Lower(Get(env, "INCLUDE_POSTGRES", "false")) = "true"
    /\ Lower(Get(env, "INCLUDE_REDIS", "false")) = "true"

has_services(env) ==
    \/ Lower(Get(env, "INCLUDE_POSTGRES", "false")) = "true"
    \/ Lower(Get(env, "INCLUDE_REDIS", "false")) = "true"

\* CONDITIONS: condition name -> the result of calling its callable under env
CONDITIONS(env) ==
    [IF_PYTHON           |-> env_is_true(env, "INCLUDE_PYTHON"),
     IF_GO               |-> env_is_true(env, "INCLUDE_GO"),
     IF_NODE             |-> env_is_true(env, "INCLUDE_NODE"),
     IF_RUST             |-> env_is_true(env, "INCLUDE_RUST"),
     IF_POSTGRES         |-> env_is_true(env, "INCLUDE_POSTGRES"),
     IF_REDIS            |-> env_is_true(env, "INCLUDE_REDIS"),
     IF_HAS_SERVICES     |-> has_services(env),
     IF_AI_SESSIONS      |-> env_is_true(env, "INCLUDE_AI_SESSIONS"),
     IF_AI_PROMPTS       |-> env_is_true(env, "INCLUDE_AI_PROMPTS"),
     IF_QUALITY_CHECKS   |-> env_is_true(env, "INCLUDE_QUALITY_CHECKS"),
     IF_COVERAGE_ENABLED |-> coverage_enabled(env),
     IF_PRECOMMIT        |-> env_is_true(env, "INCLUDE_PRECOMMIT"),
     IF_PULUMI           |-> env_is_true(env, "INCLUDE_PULUMI"),
     IF_GH_CLI           |-> env_is_true(env, "INCLUDE_GH_CLI"),
     IF_CLAUDE_CODE      |-> env_is_true(env, "INCLUDE_CLAUDE_CODE"),
     IF_INFISICAL        |-> env_is_true(env, "INCLUDE_INFISICAL"),
     IF_GCLOUD           |-> env_is_true(env, "INCLUDE_GCLOUD")]

ConditionNames == DOMAIN CONDITIONS(<<>>)

\* Operators below receive the values they use several times as parameters.

\* lookup_condition with unknown conditions treated as true
lookup_condition_unknown_true(registry, condition_name) ==
    IF condition_name \in DOMAIN registry
    THEN [val |-> registry[condition_name], warn |-> FALSE]
    ELSE [val |-> TRUE, warn |-> TRUE]

\* the lookup of _evaluate_condition in the registry: the value, and whether
\* the unknown-condition warning is printed
lookup_condition(registry, condition_name) ==
    IF condition_name \in DOMAIN registry
    THEN [val |-> registry[condition_name], warn |-> FALSE]
    ELSE [val |-> FALSE, warn |-> TRUE]

\* TemplateEngine._evaluate_condition
evaluate_condition(env, condition_name) ==
    lookup_condition(CONDITIONS(env), condition_name)

(***************************************************************************)
(* Core engine                                                             *)
(***************************************************************************)
\* max_iterations of _process_conditionals
max_iterations == 20

NoMatch == [found |-> FALSE]

\* One attempt of the pattern \{\{#(IF_[A-Z_]+)\}\}(.*?)\{\{/\1\}\} (DOTALL) at
\* position pos of s: group 1 is the maximal run of name characters, which
\* must be followed by }}; group 2 ends at the first closing tag of that name.
\* e is the end of the run, k the position of the closing tag, which is as
\* long as the opening tag (pos .. e + 1).
conditional_match(s, pos, e, k) ==
    IF k = 0 THEN NoMatch
    ELSE [found |-> TRUE,
          start |-> pos,
          name  |-> SubSeq(s, pos + 3, e - 1),
          body  |-> SubSeq(s, e + 2, k - 1),
          end   |-> k + (e - pos) + 2]

\* conditional_name without the backreference: the block ends at the first
\* closing tag of any condition
conditional_name_any_close(s, pos, e) ==
    IF e = pos + 6 \/ ~At(s, e, "}}") THEN NoMatch
    ELSE conditional_match(s, pos, e, Find(s, e + 2, "{{/IF_"))

conditional_name(s, pos, e) ==
    IF e = pos + 6 \/ ~At(s, e, "}}") THEN NoMatch
    ELSE conditional_match(s, pos, e,
             Find(s, e + 2, "{{/" \o SubSeq(s, pos + 3, e - 1) \o "}}"))

match_conditional(s, pos) ==
    IF ~At(s, pos, "{{#IF_") THEN NoMatch
    ELSE conditional_name(s, pos, RunEnd(s, pos + 6, CondNameChar))

\* the leftmost match of the conditional pattern that starts in lo..hi
RECURSIVE search_conditional(_, _, _)
left_or(s, l, mid, hi) == IF l.found THEN l ELSE search_conditional(s, mid + 1, hi)

search_conditional(s, lo, hi) ==
    IF lo > hi THEN NoMatch
    ELSE IF lo = hi THEN match_conditional(s, lo)
    ELSE left_or(s, search_conditional(s, lo, (lo + hi) \div 2), (lo + hi) \div 2, hi)

\* split_at without maxsplit=1: the second part ends at the next marker
split_at_every(block_content, k) ==
    IF k = 0 THEN <<block_content>>
    ELSE <<SubSeq(block_content, 1, k - 1),
           SubSeq(block_content, k + Len("{{#ELSE}}"),
                  IF Find(block_content, k + 1, "{{#ELSE}}") = 0
                  THEN Len(block_content)
                  ELSE Find(block_content, k + 1, "{{#ELSE}}") - 1)>>

\* re.split(r'\{\{#ELSE\}\}', block_content, maxsplit=1), k the position of
\* the first marker
split_at(block_content, k) ==
    IF k = 0 THEN <<block_content>>
    ELSE <<SubSeq(block_content, 1, k - 1),
           SubSeq(block_content, k + Len("{{#ELSE}}"), Len(block_content))>>

else_parts(block_content) == split_at(block_content, Find(block_content, 1, "{{#ELSE}}"))

\* Results carry the text (out) and the trace of the condition evaluations
\* made while producing it (log), in the order they are made.
RECURSIVE process_conditionals(_, _)
RECURSIVE sub_conditionals(_, _, _)
RECURSIVE iterate_conditionals(_, _, _)

\* the entry of the trace for one evaluation: the condition, its value,
\* whether the warning is printed, the branch that is dropped and the branch
\* that is selected.  within is the text the match was found in, passes the
\* number of passes the recursive call makes over the selected branch and
\* inner the number of evaluations made in that call; they are filled in
\* where they are known.
evaluation(condition_name, ev, if_content, else_content) ==
    [cond     |-> condition_name,
     val      |-> ev.val,
     warn     |-> ev.warn,
     dropped  |-> IF ev.val THEN else_content ELSE if_content,
     selected |-> IF ev.val THEN if_content ELSE else_content,
     within   |-> "",
     passes   |-> 0,
     inner    |-> 0]

\* the evaluation, then the recursive call on the selected content
after(entry, nested) ==
    [out |-> nested.out,
     log |-> <<[entry EXCEPT !.passes = nested.passes,
                             !.inner = Len(nested.log)]>> \o nested.log]

\* select_content with the nested conditionals of both branches processed
\* before the selection
select_content_eager(env, condition_name, if_content, else_content, ev) ==
    LET if_done   == process_conditionals(env, if_content)
        else_done == process_conditionals(env, else_content)
    IN  [out |-> IF ev.val THEN if_done.out ELSE else_done.out,
         log |-> <<[evaluation(condition_name, ev, if_content, else_content)
                       EXCEPT !.passes = IF ev.val THEN if_done.passes
                                         ELSE else_done.passes,
                              !.inner = Len(if_done.log) + Len(else_done.log)]>>
                 \o if_done.log \o else_done.log]

\* replace_conditional from the branches on: select the content by the
\* condition, then process the nested conditionals of the selected content
select_content(env, condition_name, if_content, else_content, ev) ==
    after(evaluation(condition_name, ev, if_content, else_content),
          process_conditionals(env, IF ev.val THEN if_content ELSE else_content))

split_content(env, condition_name, parts) ==
    select_content(env, condition_name,
                   parts[1],
                   IF Len(parts) > 1 THEN parts[2] ELSE "",
                   evaluate_condition(env, condition_name))

\* replace_conditional(match), with match.group(1) and match.group(2) given
replace_conditional(env, condition_name, block_content) ==
    split_content(env, condition_name, else_parts(block_content))

\* the replacement of a match found in the text s
found_in(s, rep) ==
    [out |-> rep.out,
     log |-> <<[rep.log[1] EXCEPT !.within = s]>> \o Tail(rep.log)]

joined(prefix, rep, rest) ==
    [out |-> prefix \o rep.out \o rest.out, log |-> rep.log \o rest.log]

\* re.sub from pos on, m the leftmost match at or after pos
sub_conditional_match(env, s, pos, m) ==
    IF ~m.found THEN [out |-> SubSeq(s, pos, Len(s)), log |-> <<>>]
    ELSE joined(SubSeq(s, pos, m.start - 1),
                found_in(s, replace_conditional(env, m.name, m.body)),
                sub_conditionals(env, s, m.end))

\* re.sub(pattern, replace_conditional, content, flags=re.DOTALL) from pos on:
\* the leftmost match at or after pos is replaced, the text before it is
\* copied, and the scan goes on after the match
sub_conditionals(env, s, pos) ==
    sub_conditional_match(env, s, pos, search_conditional(s, pos, Len(s)))

\* one pass that changed the content, then the passes r after it
later(log, r) == [out |-> r.out, log |-> log \o r.log, passes |-> r.passes + 1]

\* iteration that does not count the pass: the loop goes on until a pass
\* makes no replacement
iteration_uncounted(env, content, n, new) ==
    IF new.out = content THEN [out |-> content, log |-> new.log, passes |-> 1]
    ELSE later(new.log, iterate_conditionals(env, new.out, n))

\* iteration with the break one pass late: after a pass without a
\* replacement the loop makes one more pass, if it has one left
iteration_late_break(env, content, n, new) ==
    IF new.out = content
    THEN later(new.log,
               [out |-> content, log |-> <<>>, passes |-> IF n > 1 THEN 1 ELSE 0])
    ELSE later(new.log, iterate_conditionals(env, new.out, n - 1))

\* the body of the for loop: new is the result of the pass over content
iteration(env, content, n, new) ==
    IF new.out = content THEN [out |-> content, log |-> new.log, passes |-> 1]
    ELSE later(new.log, iterate_conditionals(env, new.out, n - 1))

\* the for loop of _process_conditionals with n iterations left; passes counts
\* the calls of re.sub
iterate_conditionals(env, content, n) ==
    IF n = 0 THEN [out |-> content, log |-> <<>>, passes |-> 0]
    ELSE iteration(env, content, n, sub_conditionals(env, content, 1))

\* TemplateEngine._process_conditionals
process_conditionals(env, content) ==
    iterate_conditionals(env, content, max_iterations)

\* One attempt of the pattern (?<!\$)\{\{([A-Z][A-Z0-9_]*)\}\} at position
\* pos, e the end of the run of name characters
variable_match(s, pos, e) ==
    IF ~At(s, e, "}}") THEN NoMatch
    ELSE [found |-> TRUE,
          start |-> pos,
          name  |-> SubSeq(s, pos + 2, e - 1),
          text  |-> SubSeq(s, pos, e + 1),
          end   |-> e + 2]

\* match_variable without the lookbehind (?<!\$)
match_variable_no_lookbehind(s, pos) ==
    IF \/ ~At(s, pos, "{{")
       \/ pos + 2 > Len(s)
       \/ CharAt(s, pos + 2) \notin UPPER
    THEN NoMatch
    ELSE variable_match(s, pos, RunEnd(s, pos + 3, VarNameChar))

match_variable(s, pos) ==
    IF \/ ~At(s, pos, "{{")
       \/ (pos > 1 /\ CharAt(s, pos - 1) = "$")
       \/ pos + 2 > Len(s)
       \/ CharAt(s, pos + 2) \notin UPPER
    THEN NoMatch
    ELSE variable_match(s, pos, RunEnd(s, pos + 3, VarNameChar))

\* the leftmost match of the variable pattern that starts in lo..hi
RECURSIVE search_variable(_, _, _)
left_or_variable(s, l, mid, hi) ==
    IF l.found THEN l ELSE search_variable(s, mid + 1, hi)

search_variable(s, lo, hi) ==
    IF lo > hi THEN NoMatch
    ELSE IF lo = hi THEN match_variable(s, lo)
    ELSE left_or_variable(s, search_variable(s, lo, (lo + hi) \div 2),
                          (lo + hi) \div 2, hi)

\* replace_variable with an unknown name replaced by the empty string
replace_variable_blank(variables, var_name, whole) == Get(variables, var_name, "")

\* replace_variable(match), with match.group(1) and match.group(0) given
replace_variable(variables, var_name, whole) == Get(variables, var_name, whole)

RECURSIVE sub_variables(_, _, _)

\* sub_variable_match with count=1: only the leftmost match is replaced
sub_variable_match_once(variables, s, pos, m) ==
    IF ~m.found THEN SubSeq(s, pos, Len(s))
    ELSE SubSeq(s, pos, m.start - 1)
         \o replace_variable(variables, m.name, m.text)
         \o SubSeq(s, m.end, Len(s))

\* re.sub from pos on, m the leftmost match at or after pos
sub_variable_match(variables, s, pos, m) ==
    IF ~m.found THEN SubSeq(s, pos, Len(s))
    ELSE SubSeq(s, pos, m.start - 1)
         \o replace_variable(variables, m.name, m.text)
         \o sub_variables(variables, s, m.end)

\* re.sub(pattern, replace_variable, content) from pos on
sub_variables(variables, s, pos) ==
    sub_variable_match(variables, s, pos, search_variable(s, pos, Len(s)))

\* TemplateEngine._process_variables
process_variables(variables, content) == sub_variables(variables, content, 1)

\* normalize with rstrip("\n") for rstrip()
normalize_newlines_only(content) ==
    SubSeq(content, 1, Last(LAMBDA k : CharAt(content, k) # "\n", 1, Len(content)))
    \o "\n"

\* content.rstrip() + "\n"
normalize(content) == RStrip(content) \o "\n"

\* process_string after the conditionals: c is their result
substitute_resolved(variables, c) ==
    [out      |-> normalize(process_variables(variables, c.out)),
     resolved |-> c.out,
     log      |-> c.log,
     passes   |-> c.passes]

\* process_string with the two steps in the other order
process_string_variables_first(env, variables, content) ==
    LET c == process_conditionals(env, process_variables(variables, content))
    IN  [out |-> normalize(c.out), resolved |-> c.out, log |-> c.log,
         passes |-> c.passes]

\* TemplateEngine.process_string: conditionals, then variables, then the
\* trailing whitespace.  resolved is the text between the first two steps,
\* passes the number of passes of the call of _process_conditionals.
process_string(env, variables, content) ==
    substitute_resolved(variables, process_conditionals(env, content))

(***************************************************************************)
(* Inputs: the environments and the template texts of the model            *)
(***************************************************************************)
\* deepest same-name nesting among the templates
MaxNest == 2

\* the environment keys that vary, each with the values it takes when set
EnvValues ==
    [INCLUDE_GO   |-> {"true", "false", "True"},
     INCLUDE_RUST |-> {"true"},
     DB_NAME      |-> {"", "prod", "{{DB_USER}}", "{{#IF_GO}}x{{/IF_GO}}"}]

\* the environments that set some of the keys of values, each to one of its
\* values
Settings(values) ==
    {e \in UNION {[K -> UNION {values[k] : k \in K}] : K \in SUBSET DOMAIN values} :
        \A k \in DOMAIN e : e[k] \in values[k]}

\* the two keys the composite condition reads
ServiceValues ==
    [INCLUDE_POSTGRES |-> {"true", "false", "True"},
     INCLUDE_REDIS    |-> {"true", "false", "True"}]

\* keys that are set alone: the versions the derived variables are computed
\* from, and a value that ends in whitespace
SingleValues ==
    [PYTHON_VERSION |-> {"3.12", "3.11.4", "312", "", "..3"},
     GO_VERSION     |-> {"1.22.0", "1.21", "1", "", "1.2.3.4", ".5", "1..2"},
     RUST_VERSION   |-> {"stable", "nightly", "beta", "1.80.1", "Stable", "stable.", ""},
     DB_USER        |-> {"u \n "},
     COVERAGE_THRESHOLD |-> {"80", "0", "-5", "abc", "", " 7 ", "+3", "007", "3.5"},
     INCLUDE_PYTHON |-> {"true", "TRUE", "tRuE", "1", "yes", " true ", "false", "",
                         "truee"},
     INCLUDE_NODE   |-> {"True"},
     INCLUDE_AI_SESSIONS |-> {"TRUE"},
     INCLUDE_AI_PROMPTS |-> {"true"},
     INCLUDE_QUALITY_CHECKS |-> {"true"},
     INCLUDE_PRECOMMIT |-> {"true"},
     INCLUDE_PULUMI |-> {"true"},
     INCLUDE_GH_CLI |-> {"true"},
     INCLUDE_CLAUDE_CODE |-> {"true"},
     INCLUDE_INFISICAL |-> {"true"},
     INCLUDE_GCLOUD |-> {"true"}]

SingleEnvirons ==
    UNION {{[x \in {k} |-> v] : v \in SingleValues[k]} : k \in DOMAIN SingleValues}

Environs == Settings(EnvValues) \cup Settings(ServiceValues) \cup SingleEnvirons

\* condition names used in the templates: two registered ones, one that is not
BlockNames == {"IF_GO", "IF_RUST", "IF_X"}

OpenTag(name) == "{{#" \o name \o "}}"
CloseTag(name) == "{{/" \o name \o "}}"
ElseTag == "{{#ELSE}}"

\* text before and after a block; the last pair holds a stray else and a stray
\* closing tag
Wraps == {<<"", "">>, <<"a ", " z">>, <<"{{#ELSE}}", "{{/IF_NODE}}">>}

\* block bodies without nested conditional tags: the text before the first
\* else marker, whether there is one, and the text after it
Bodies ==
    {[ifb |-> "",            has_else |-> FALSE, elseb |-> ""],
     [ifb |-> "yes",         has_else |-> FALSE, elseb |-> ""],
     [ifb |-> "yes",         has_else |-> TRUE,  elseb |-> "no"],
     [ifb |-> "",            has_else |-> TRUE,  elseb |-> ""],
     [ifb |-> "p",           has_else |-> TRUE,  elseb |-> "q{{#ELSE}}r"],
     [ifb |-> "{{DB_NAME}}", has_else |-> TRUE,  elseb |-> "{{DB_USER}}"]}

BodyText(b) == b.ifb \o (IF b.has_else THEN ElseTag \o b.elseb ELSE "")

Block(w, name, b) ==
    w[1] \o OpenTag(name) \o BodyText(b) \o CloseTag(name) \o w[2]

BlockTemplates == {Block(w, n, b) : w \in Wraps, n \in BlockNames, b \in Bodies}

\* d blocks of the same condition nested in each other
RECURSIVE Nest(_, _)
Nest(name, d) ==
    IF d = 0 THEN "x"
    ELSE OpenTag(name) \o Nest(name, d - 1) \o "y" \o CloseTag(name)

NestTemplates == {Nest("IF_GO", d) : d \in 1..MaxNest}

\* the nested blocks with their own else, and the block nested in a discarded
\* branch
NestedElseTemplate ==
    "{{#IF_GO}}{{#IF_RUST}}XB{{#ELSE}}YB{{/IF_RUST}}{{#ELSE}}ZA{{/IF_GO}}"

ShortCircuitTemplate == "{{#IF_GO}}{{#IF_B}}X{{/IF_B}}{{#ELSE}}Y{{/IF_GO}}"

\* one block more than _process_conditionals has iterations
DeepNestTemplate == Nest("IF_GO", max_iterations + 1)

ServicesTemplate ==
    "{{#IF_HAS_SERVICES}}services: yes{{#ELSE}}services: no{{/IF_HAS_SERVICES}}"

\* the composite condition and the two conditions it is composed of
AllServicesTemplate ==
    "{{#IF_HAS_SERVICES}}s{{/IF_HAS_SERVICES}}{{#IF_POSTGRES}}p{{/IF_POSTGRES}}{{#IF_REDIS}}r{{/IF_REDIS}}"

\* texts without an opening tag that is followed by its closing tag
UnpairedTemplates ==
    {"{{#IF_GO}}a{{/IF_RUST}}b",
     "{{/IF_GO}}a{{#IF_GO}}b{{#ELSE}}c",
     "{{#ELSE}}a{{/IF_GO}}",
     "{{#IF_GO}}a{{#ELSE}}b{{/IF_GO}",
     "{{#IF_Go}}a{{/IF_Go}} {{#IF_G0}}b{{/IF_G0}} {{#if_GO}}c{{/if_GO}}",
     "{{#IF_GO }}a{{/IF_GO }} {{# IF_GO}}b{{/ IF_GO}} {{#IF_}}c{{/IF_}}"}

\* a block with its else nested in the else branch of a block, then a block
ElseBranchNestTemplate ==
    "{{#IF_GO}}a{{#ELSE}}{{#IF_RUST}}b{{#ELSE}}c{{/IF_RUST}}d{{/IF_GO}}e{{#IF_X}}f{{/IF_X}}"

\* three levels of blocks of different names, the innermost in both branches
ThreeLevelTemplate ==
    "{{#IF_RUST}}a{{#IF_GO}}b{{#IF_X}}c{{/IF_X}}{{/IF_GO}}{{#ELSE}}{{#IF_GO}}d{{#ELSE}}{{#IF_X}}e{{#ELSE}}f{{/IF_X}}{{/IF_GO}}g{{/IF_RUST}}"

\* the coverage condition and the coverage variable
CoverageTemplate ==
    "{{#IF_COVERAGE_ENABLED}}on{{#ELSE}}off{{/IF_COVERAGE_ENABLED}} {{COVERAGE_THRESHOLD}}"

\* the conditions of CONDITIONS that are built by _env_is_true
ToggleNames ==
    <<"IF_PYTHON", "IF_GO", "IF_NODE", "IF_RUST", "IF_POSTGRES", "IF_REDIS",
      "IF_AI_SESSIONS", "IF_AI_PROMPTS", "IF_QUALITY_CHECKS", "IF_PRECOMMIT",
      "IF_PULUMI", "IF_GH_CLI", "IF_CLAUDE_CODE", "IF_INFISICAL", "IF_GCLOUD">>

\* one block for each of the names from the k-th on
RECURSIVE ToggleBlocks(_)
ToggleBlocks(k) ==
    IF k > Len(ToggleNames) THEN ""
    ELSE OpenTag(ToggleNames[k]) \o "1" \o ElseTag \o "0" \o CloseTag(ToggleNames[k])
         \o ToggleBlocks(k + 1)

TogglesTemplate == ToggleBlocks(1)

ConditionalTemplates ==
    {NestedElseTemplate,
     ShortCircuitTemplate,
     DeepNestTemplate,
     ServicesTemplate,
     AllServicesTemplate,
     "{{#IF_GO}}a{{#IF_RUST}}b{{/IF_RUST}}c{{/IF_GO}}",
     "{{#IF_GO}}a{{#IF_X}}b{{/IF_X}}{{#ELSE}}c{{#IF_RUST}}d{{/IF_RUST}}{{/IF_GO}}",
     "{{#IF_X}}a{{#ELSE}}b{{/IF_X}} {{#IF_GO}}c{{#ELSE}}d{{/IF_GO}}",
     "{{#IF_GO}}a{{/IF_RUST}}b{{#IF_RUST}}c{{/IF_GO}}",
     "{{#IF_go}}a{{/IF_go}}{{#IF_G0}}b{{/IF_G0}}{{#IF_}}c{{/IF_}}",
     ElseBranchNestTemplate,
     ThreeLevelTemplate,
     CoverageTemplate,
     TogglesTemplate}

VariableTemplates ==
    {"",
     "plain text \n\n ",
     "{{DB_NAME}}",
     "${{DB_NAME}}",
     "$${{DB_NAME}} {{DB_NAME}}",
     "{{DB_NAME}}{{DB_NAME}}${{DB_USER}}{{DB_USER}}",
     "x{{NOT_DECLARED}}y{{DB_USER}}",
     "{{db_name}} {{1DB}} {{DB_NAME} {DB_NAME}} {{DB_NAME",
     "{{#IF_GO}} {{DB_NAME}} {{/IF_RUST}} {{#ELSE}}",
     "{{{{DB_NAME}}DB_USER}}",
     "{{DB_{{DB_NAME}}NAME}}",
     "{{GO_VERSION_SHORT}}-{{RUST_MSRV}}-{{PYTHON_VERSION_NODOT}}",
     "py{{PYTHON_VERSION_NODOT}}",
     " \n\t \n",
     "a \t\n\n \n",
     "{{#IF_X}}a{{/IF_X}} \n",
     "x{{DB_USER}}"}

Templates ==
    BlockTemplates \cup NestTemplates \cup ConditionalTemplates
    \cup UnpairedTemplates \cup VariableTemplates

(***************************************************************************)
(* State                                                                   *)
(***************************************************************************)
VARIABLES
    environ,    \* os.environ
    pc,         \* "start": no engine yet, "ready": engine built, "done": processed
    engine,     \* TemplateEngine.variables
    content,    \* the argument of process_string
    resolved,   \* the text after _process_conditionals
    evals,      \* the condition evaluations of the call, in order
    passes,     \* the passes of the call of _process_conditionals
    stderr,     \* the lines printed to sys.stderr
    result,     \* the value process_string returns
    constructed, \* os.environ as it was when the engine was constructed
    fs,         \* the file system: the input path, the output path and its parent
    raised,     \* the exception that left process_file, if any
    argv,       \* sys.argv of template_engine.py
    exit_code,  \* what main() of the program returned, -1 before it returns
    items,      \* routes._items
    next_id,    \* routes._next_id
    response,   \* the response to the last request of the API
    created,    \* the ids create_item has assigned since the last reset, in order
    config,     \* the configuration a tool holds in memory
    loaded,     \* the configuration as load_config returned it
    config_file, \* .project.yaml on disk
    menu,       \* the position of a tool of .project/config
    choices,    \* the choices made in the main menu
    applied     \* the languages cmd_preset reports as updated

\* the state of the command line of the template engine
cli_vars == <<argv, exit_code>>

\* the state of the example API
api_vars == <<items, next_id, response, created>>

\* the state of the tools of .project/config
config_vars == <<config, loaded, config_file, menu, choices, applied>>

\* the variables the template engine leaves alone
tool_vars == <<cli_vars, api_vars, config_vars>>

vars ==
    <<environ, pc, engine, content, resolved, evals, passes, stderr, result,
      constructed, fs, raised, cli_vars, api_vars, config_vars>>

\* the variables process_string sets
call_vars == <<content, resolved, evals, passes, stderr, result>>

NoException == [type |-> "none", file |-> ""]

\* no file is involved
NoFiles ==
    [input  |-> [kind |-> "absent", text |-> ""],
     parent |-> "dir",
     output |-> [kind |-> "absent", text |-> ""]]

\* main() of template_engine.py has not run
CliIdle ==
    /\ argv = <<>>
    /\ exit_code = -1

\* nothing has been requested of the API
NoResponse == [op |-> "none", request |-> <<>>, status |-> 0, body |-> <<>>]

\* the API has served no request
ApiIdle ==
    /\ items = <<>>
    /\ next_id = 1
    /\ response = NoResponse
    /\ created = <<>>

\* .project.yaml does not exist
NoConfigFile == [exists |-> FALSE, data |-> <<>>]

\* no tool of .project/config has run
ConfigIdle ==
    /\ config = <<>>
    /\ loaded = <<>>
    /\ config_file = NoConfigFile
    /\ menu = "idle"
    /\ choices = <<>>
    /\ applied = <<>>

\* the template engine is not in use
EngineIdle ==
    /\ environ = <<>>
    /\ pc = "start"
    /\ engine = <<>>
    /\ content = ""
    /\ resolved = ""
    /\ evals = <<>>
    /\ passes = 0
    /\ stderr = <<>>
    /\ result = ""
    /\ constructed = <<>>
    /\ fs = NoFiles
    /\ raised = NoException

Init ==
    /\ environ \in Environs
    /\ pc = "start"
    /\ engine = <<>>
    /\ content = ""
    /\ resolved = ""
    /\ evals = <<>>
    /\ passes = 0
    /\ stderr = <<>>
    /\ result = ""
    /\ constructed = <<>>
    /\ fs = NoFiles
    /\ raised = NoException
    /\ CliIdle
    /\ ApiIdle
    /\ ConfigIdle

\* the line _evaluate_condition prints for an unknown condition
Warning(condition_name) ==
    "Warning: Unknown condition '" \o condition_name \o "', treating as False"

\* the warnings of a trace of evaluations, in order
RECURSIVE Warnings(_)
Warnings(log) ==
    IF log = <<>> THEN <<>>
    ELSE (IF log[1].warn THEN <<Warning(log[1].cond)>> ELSE <<>>)
         \o Warnings(Tail(log))

\* TemplateEngine.__init__
TemplateEngineInit ==
    /\ pc = "start"
    /\ engine' = load_variables(environ)
    /\ constructed' = environ
    /\ pc' = "ready"
    /\ UNCHANGED <<environ, call_vars, fs, raised, tool_vars>>

\* the effects of a call of process_string(t) that returns r
Returns(t, r) ==
    /\ content' = t
    /\ resolved' = r.resolved
    /\ evals' = r.log
    /\ passes' = r.passes
    /\ stderr' = stderr \o Warnings(r.log)
    /\ result' = r.out

\* engine.process_string(t)
ProcessString(t) ==
    /\ pc = "ready"
    /\ Returns(t, process_string(environ, engine, t))
    /\ pc' = "done"
    /\ UNCHANGED <<environ, engine, constructed, fs, raised, tool_vars>>

Next ==
    \/ TemplateEngineInit
    \/ \E t \in Templates : ProcessString(t)

Spec == Init /\ [][Next]_vars

(***************************************************************************)
(* The environment changes while the engine is in use                      *)
(***************************************************************************)
\* the keys that are set after the construction, with the values they get
PutenvValues ==
    [INCLUDE_GO |-> {"true", "false"},
     DB_NAME    |-> {"prod"}]

\* os.environ[key] = value, by the program that uses the engine, between the
\* construction of the engine and the call of process_string
Putenv(key, value) ==
    /\ pc = "ready"
    /\ environ' = [k \in DOMAIN environ \cup {key} |->
                      IF k = key THEN value ELSE environ[k]]
    /\ UNCHANGED <<pc, engine, call_vars, constructed, fs, raised, tool_vars>>

EnvNext ==
    \/ TemplateEngineInit
    \/ \E key \in DOMAIN PutenvValues : \E value \in PutenvValues[key] : Putenv(key, value)
    \/ \E t \in Templates : ProcessString(t)

EnvSpec == Init /\ [][EnvNext]_vars

(***************************************************************************)
(* process_file                                                            *)
(***************************************************************************)
\* the two arguments of process_file
InputPath == "in.template"

OutputPath == "out/file.txt"

\* most characters a failing write has put into the file
MaxWritten == 2

\* What the input path is: absent, a file with its text, something read_text
\* fails on (a directory, a file without read permission, bytes that are not
\* UTF-8), or a path stat fails on with an error other than ENOENT, ENOTDIR,
\* EBADF and ELOOP (a name that is too long, a directory without search
\* permission), which Path.exists does not catch.
Inputs ==
    {[kind |-> k, text |-> ""] : k \in {"absent", "unreadable", "unstatable"}}
    \cup {[kind |-> "file", text |-> t] :
             t \in {"",
                    "hello {{DB_NAME}}  \n\n",
                    "{{#IF_GO}}go{{#ELSE}}no go{{/IF_GO}}\n{{#IF_X}}x{{/IF_X}}"}}

Absent == [kind |-> "absent", text |-> ""]

\* the parent of the output path (a directory, absent, or a file) and what
\* the output path is (absent, a file with its text, or a directory)
Outputs ==
    {<<"dir", Absent>>,
     <<"dir", [kind |-> "file", text |-> "old\n"]>>,
     <<"dir", [kind |-> "dir", text |-> ""]>>,
     <<"absent", Absent>>,
     <<"file", Absent>>}

FileSystems ==
    {[input |-> i, parent |-> o[1], output |-> o[2]] : i \in Inputs, o \in Outputs}

FileEnvirons == {<<>>, [INCLUDE_GO |-> "true"], [DB_NAME |-> "prod"]}

\* The failure of the operating system during the write step, if any: mkdir
\* fails, open fails, or the write fails after open has truncated the file and
\* some characters have been written.
Faults ==
    {[at |-> a, written |-> 0] : a \in {"none", "mkdir", "open"}}
    \cup {[at |-> "write", written |-> k] : k \in 0..MaxWritten}

TemplateError(file) == [type |-> "TemplateError", file |-> file]

\* the error that leaves the read step for an input that is not a readable
\* file: exists() raises, exists() is false, read_text() raises
read_error(kind) ==
    IF kind = "unstatable" THEN [type |-> "OSError", file |-> ""]
    ELSE TemplateError(InputPath)

Min(a, b) == IF a < b THEN a ELSE b

\* write_error with the input path in the error
write_error_input_path(files) == [fs |-> files, raised |-> TemplateError(InputPath)]

\* the except clause of the write step
write_error(files) == [fs |-> files, raised |-> TemplateError(OutputPath)]

\* output_path.write_text(text): open(mode='w') fails on a directory or by
\* the fault and leaves the path as it is; otherwise it creates or truncates
\* the file, and the write puts all of text or, failing, a part of it
write_text(files, text, fault) ==
    IF files.output.kind = "dir" \/ fault.at = "open" THEN write_error(files)
    ELSE IF fault.at = "write"
    THEN write_error([files EXCEPT !.output =
             [kind |-> "file", text |-> SubSeq(text, 1, Min(fault.written, Len(text)))]])
    ELSE [fs     |-> [files EXCEPT !.output = [kind |-> "file", text |-> text]],
          raised |-> NoException]

\* output_path.parent.mkdir(parents=True, exist_ok=True), then write_text
write_output(files, text, fault) ==
    IF files.parent = "file" THEN write_error(files)
    ELSE IF files.parent = "absent" /\ fault.at = "mkdir" THEN write_error(files)
    ELSE write_text([files EXCEPT !.parent = "dir"], text, fault)

Outcome(o) ==
    /\ fs' = o.fs
    /\ raised' = o.raised

\* the process and write steps: r is what process_string returns
Processed(r, fault) ==
    /\ Returns(fs.input.text, r)
    /\ Outcome(write_output(fs, r.out, fault))

\* engine.process_file(InputPath, OutputPath)
ProcessFile(fault) ==
    /\ pc = "ready"
    /\ IF fs.input.kind = "file"
       THEN Processed(process_string(environ, engine, fs.input.text), fault)
       ELSE /\ raised' = read_error(fs.input.kind)
            /\ UNCHANGED <<call_vars, fs>>
    /\ pc' = "done"
    /\ UNCHANGED <<environ, engine, constructed, tool_vars>>

\* sys.argv: the name of the program and the arguments of the command line
Args ==
    {<<"template_engine.py">>,
     <<"template_engine.py", InputPath>>,
     <<"template_engine.py", InputPath, OutputPath>>,
     <<"template_engine.py", InputPath, OutputPath, "extra">>}

\* main() returns 0 whatever left process_file
returned_zero(e) == [code |-> 0, printed |-> <<>>]

\* What main() returns and prints after the try block, e being the exception
\* that left it, if any. Only the head of the printed line is kept: the text
\* of the exception that follows it is left out.
returned(e) ==
    IF e.type = "none" THEN [code |-> 0, printed |-> <<>>]
    ELSE IF e.type = "TemplateError"
    THEN [code |-> 1, printed |-> <<"Template Error: ">>]
    ELSE [code |-> 1, printed |-> <<"Unexpected error: ">>]

\* the usage message of main(), printed for a wrong number of arguments
Usage ==
    /\ stderr' = stderr \o <<"Usage: " \o argv'[1] \o " <input_template> <output_file>",
                             "__doc__">>
    /\ exit_code' = 1
    /\ UNCHANGED <<engine, constructed, content, resolved, evals, passes, result,
                   fs, raised>>

\* main() leaves the try block: o is the outcome of the write step, or of
\* the read step when it failed, and log the evaluations of the call
Exits(log, o) ==
    /\ stderr' = stderr \o Warnings(log) \o returned(o.raised).printed
    /\ exit_code' = returned(o.raised).code
    /\ Outcome(o)

\* process_string returned r in main()
Completed(r, fault) ==
    /\ content' = fs.input.text
    /\ resolved' = r.resolved
    /\ evals' = r.log
    /\ passes' = r.passes
    /\ result' = r.out
    /\ Exits(r.log, write_output(fs, r.out, fault))

\* the try block of main(): TemplateEngine(), then process_file
Tried(variables, fault) ==
    /\ engine' = variables
    /\ constructed' = environ
    /\ IF fs.input.kind = "file"
       THEN Completed(process_string(environ, variables, fs.input.text), fault)
       ELSE /\ Exits(<<>>, [fs |-> fs, raised |-> read_error(fs.input.kind)])
            /\ UNCHANGED <<content, resolved, evals, passes, result>>

\* main() of template_engine.py, run as a program
Main(args, fault) ==
    /\ pc = "start"
    /\ argv' = args
    /\ IF Len(args) # 3 THEN Usage ELSE Tried(load_variables(environ), fault)
    /\ pc' = "exited"
    /\ UNCHANGED <<environ, api_vars, config_vars>>

FileInit ==
    /\ environ \in FileEnvirons
    /\ pc = "start"
    /\ engine = <<>>
    /\ content = ""
    /\ resolved = ""
    /\ evals = <<>>
    /\ passes = 0
    /\ stderr = <<>>
    /\ result = ""
    /\ constructed = <<>>
    /\ fs \in FileSystems
    /\ raised = NoException
    /\ CliIdle
    /\ ApiIdle
    /\ ConfigIdle

FileNext ==
    \/ TemplateEngineInit
    \/ \E fault \in Faults : ProcessFile(fault)
    \/ \E args \in Args : \E fault \in Faults : Main(args, fault)

FileSpec == FileInit /\ [][FileNext]_vars

(***************************************************************************)
(* The example API: the item store of routes.py                            *)
(***************************************************************************)
\* most items created between two resets
MaxItems == 3

\* A dict is the sequence of its entries in insertion order.
dict_contains(d, key) == \E i \in 1..Len(d) : d[i].key = key

dict_get(d, key) == d[CHOOSE i \in 1..Len(d) : d[i].key = key].value

\* d[key] = value: a new key is appended, an old key keeps its place
dict_set(d, key, value) ==
    IF dict_contains(d, key)
    THEN [i \in 1..Len(d) |-> IF d[i].key = key THEN [key |-> key, value |-> value]
                                                ELSE d[i]]
    ELSE Append(d, [key |-> key, value |-> value])

\* list(d.values())
dict_values(d) == [i \in 1..Len(d) |-> d[i].value]

X10 == "xxxxxxxxxx"

X50 == X10 \o X10 \o X10 \o X10 \o X10

\* a name of max_length characters, and one that is one character longer
LongestName == X50 \o X50

TooLongName == LongestName \o "x"

\* The bodies of POST /items: the fields that are present, with a price in
\* whole units. None is <<>> and a description d is <<d>>.
Bodies_with_price ==
    {[name |-> n, price |-> p] :
        n \in {"", "Widget", LongestName, TooLongName}, p \in {-1, 0, 1, 5}}

ItemBodies ==
    Bodies_with_price
    \cup {[name |-> "Widget"], [price |-> 5],
          [name |-> "Widget", price |-> 5, description |-> <<"a widget">>]}

\* the ids of GET /items/{item_id}
ItemIds == 0..(MaxItems + 1) \cup {999}

\* ItemCreate accepts every price
validate_any_price(body) ==
    /\ "name" \in DOMAIN body
    /\ Len(body.name) >= 1
    /\ Len(body.name) <= 100
    /\ "price" \in DOMAIN body

\* the validation of a request body against ItemCreate
validate(body) ==
    /\ "name" \in DOMAIN body
    /\ Len(body.name) >= 1
    /\ Len(body.name) <= 100
    /\ "price" \in DOMAIN body
    /\ body.price > 0

\* item.model_dump()
model_dump(body) ==
    [name        |-> body.name,
     price       |-> body.price,
     description |-> IF "description" \in DOMAIN body THEN body.description ELSE <<>>]

\* Item(id=id, **fields)
Item(id, fields) ==
    [id |-> id, name |-> fields.name, price |-> fields.price,
     description |-> fields.description]

Responds(op, request, status, body) ==
    response' = [op |-> op, request |-> request, status |-> status, body |-> body]

\* the body of create_item
Created(body, new_item) ==
    /\ items' = dict_set(items, next_id, new_item)
    /\ next_id' = next_id + 1
    /\ created' = Append(created, [id |-> new_item.id, body |-> body])
    /\ Responds("create_item", body, 201, new_item)

\* POST /items: the body is validated before create_item is called
CreateItem(body) ==
    /\ validate(body) => next_id <= MaxItems
    /\ IF validate(body)
       THEN Created(body, Item(next_id, model_dump(body)))
       ELSE /\ Responds("create_item", body, 422, <<>>)
            /\ UNCHANGED <<items, next_id, created>>
    /\ UNCHANGED <<environ, pc, engine, call_vars, constructed, fs, raised,
                   cli_vars, config_vars>>

\* get_item answers with the first item of the store
get_item_first(item_id) ==
    IF ~dict_contains(items, item_id)
    THEN [status |-> 404, body |-> [detail |-> "Item not found"]]
    ELSE [status |-> 200, body |-> items[1].value]

\* the body of get_item
get_item(item_id) ==
    IF ~dict_contains(items, item_id)
    THEN [status |-> 404, body |-> [detail |-> "Item not found"]]
    ELSE [status |-> 200, body |-> dict_get(items, item_id)]

\* GET /items/{item_id}
GetItem(item_id) ==
    /\ Responds("get_item", item_id, get_item(item_id).status, get_item(item_id).body)
    /\ UNCHANGED <<items, next_id, created>>
    /\ UNCHANGED <<environ, pc, engine, call_vars, constructed, fs, raised,
                   cli_vars, config_vars>>

\* GET /items
ListItems ==
    /\ Responds("list_items", <<>>, 200,
                [items |-> dict_values(items), count |-> Len(items)])
    /\ UNCHANGED <<items, next_id, created>>
    /\ UNCHANGED <<environ, pc, engine, call_vars, constructed, fs, raised,
                   cli_vars, config_vars>>

\* reset_items() that leaves the counter as it is
reset_keeps_counter == [items |-> <<>>, next_id |-> next_id]

\* what reset_items() assigns
reset_items == [items |-> <<>>, next_id |-> 1]

\* reset_items(), called by the fixture of the tests
ResetItems ==
    /\ items' = reset_items.items
    /\ next_id' = reset_items.next_id
    /\ created' = <<>>
    /\ Responds("reset_items", <<>>, 0, <<>>)
    /\ UNCHANGED <<environ, pc, engine, call_vars, constructed, fs, raised,
                   cli_vars, config_vars>>

ApiInit ==
    /\ EngineIdle
    /\ CliIdle
    /\ ApiIdle
    /\ ConfigIdle

ApiNext ==
    \/ \E body \in ItemBodies : CreateItem(body)
    \/ \E item_id \in ItemIds : GetItem(item_id)
    \/ ListItems
    \/ ResetItems

ApiSpec == ApiInit /\ [][ApiNext]_vars

(***************************************************************************)
(* .project.yaml: the registries and the file of project_config.py         *)
(***************************************************************************)
QUALITY_PRESETS ==
    [strict |->
        [description |-> "Production-ready: High coverage, all checks enabled",
         python |-> [coverage |-> 90, lint |-> TRUE, typecheck |-> TRUE, format |-> TRUE],
         go     |-> [coverage |-> 80, lint |-> TRUE, format |-> TRUE],
         node   |-> [coverage |-> 85, lint |-> TRUE, typecheck |-> TRUE, format |-> TRUE],
         rust   |-> [coverage |-> 75, lint |-> TRUE, format |-> TRUE]],
     standard |->
        [description |-> "Balanced: Moderate thresholds, essential checks",
         python |-> [coverage |-> 80, lint |-> TRUE, typecheck |-> TRUE, format |-> TRUE],
         go     |-> [coverage |-> 70, lint |-> TRUE, format |-> TRUE],
         node   |-> [coverage |-> 75, lint |-> TRUE, typecheck |-> TRUE, format |-> TRUE],
         rust   |-> [coverage |-> 60, lint |-> TRUE, format |-> TRUE]],
     relaxed |->
        [description |-> "Rapid prototyping: Lower thresholds, flexible checks",
         python |-> [coverage |-> 50, lint |-> TRUE, typecheck |-> FALSE, format |-> TRUE],
         go     |-> [coverage |-> 40, lint |-> TRUE, format |-> TRUE],
         node   |-> [coverage |-> 50, lint |-> TRUE, typecheck |-> FALSE, format |-> TRUE],
         rust   |-> [coverage |-> 30, lint |-> TRUE, format |-> TRUE]],
     off |->
        [description |-> "No enforcement: All quality checks disabled",
         python |-> [coverage |-> 0, lint |-> FALSE, typecheck |-> FALSE, format |-> FALSE],
         go     |-> [coverage |-> 0, lint |-> FALSE, format |-> FALSE],
         node   |-> [coverage |-> 0, lint |-> FALSE, typecheck |-> FALSE, format |-> FALSE],
         rust   |-> [coverage |-> 0, lint |-> FALSE, format |-> FALSE]]]

DEFAULT_CONFIG ==
    [project |-> [name |-> "my-project", description |-> "A new project"],
     languages |->
        [python |-> [enabled |-> FALSE, version |-> "3.12", src_dir |-> "src",
                     quality |-> [coverage |-> 80, lint |-> TRUE, typecheck |-> TRUE,
                                  format |-> TRUE]],
         go     |-> [enabled |-> FALSE, version |-> "1.22.0",
                     quality |-> [coverage |-> 70, lint |-> TRUE, format |-> TRUE]],
         node   |-> [enabled |-> FALSE, version |-> "20",
                     quality |-> [coverage |-> 75, lint |-> TRUE, typecheck |-> TRUE,
                                  format |-> TRUE]],
         rust   |-> [enabled |-> FALSE, version |-> "stable",
                     quality |-> [coverage |-> 60, lint |-> TRUE, format |-> TRUE]]],
     precommit |-> TRUE,
     infrastructure |->
        [postgres |-> [enabled |-> FALSE, version |-> "16"],
         redis    |-> [enabled |-> FALSE, version |-> "7"]]]

\* the keys of the languages of DEFAULT_CONFIG, in the order of the dict
LanguageOrder == <<"python", "go", "node", "rust">>

\* the keys whose values are dicts, in the defaults and in the files of the
\* model: what isinstance(value, dict) answers
DictKeys ==
    {"project", "languages", "python", "go", "node", "rust", "java", "quality",
     "infrastructure", "postgres", "redis"}

\* d[key] = value
Put(d, key, value) ==
    [k \in DOMAIN d \cup {key} |-> IF k = key THEN value ELSE d[k]]

\* deep_merge(base, override)
RECURSIVE deep_merge(_, _)
deep_merge(base, override) ==
    [key \in DOMAIN base \cup DOMAIN override |->
        IF key \notin DOMAIN override THEN base[key]
        ELSE IF key \in DOMAIN base /\ key \in DictKeys
        THEN deep_merge(base[key], override[key])
        ELSE override[key]]

\* The file holds the document yaml.dump was given; the text of the YAML
\* document is not modelled.
ConfigFileOf(data) == [exists |-> TRUE, data |-> data]

\* load_config(), HAS_YAML given
load_config(file, has_yaml) ==
    IF ~file.exists \/ ~has_yaml THEN DEFAULT_CONFIG
    ELSE deep_merge(DEFAULT_CONFIG, file.data)

\* the languages of a file: some enabled, one with quality settings of its own
Enabling(on) == [k \in on |-> [enabled |-> TRUE]]

ConfigFiles ==
    {NoConfigFile, ConfigFileOf(<<>>)}
    \cup {ConfigFileOf([languages |-> Enabling(on)]) :
             on \in SUBSET {"python", "go", "node", "rust"}}
    \cup {ConfigFileOf([languages |->
                           [python |-> [enabled |-> e,
                                        quality |-> [coverage |-> 95, lint |-> FALSE]],
                            java   |-> [enabled |-> TRUE,
                                        quality |-> [coverage |-> 10]]],
                        precommit |-> FALSE]) : e \in BOOLEAN}

(***************************************************************************)
(* project_config.py preset                                                *)
(***************************************************************************)
\* sys.argv of project_config.py for the command preset
PresetArgs ==
    {<<"project_config.py", "preset">>}
    \cup {<<"project_config.py", "preset", name>> :
             name \in {"strict", "standard", "relaxed", "off", "bogus"}}

\* the loop of cmd_preset over the languages of the configuration
apply_preset(languages, preset) ==
    [lang_key \in DOMAIN languages |->
        IF lang_key \in DOMAIN preset
        THEN Put(languages[lang_key], "quality", preset[lang_key])
        ELSE languages[lang_key]]

\* the list applied of cmd_preset
applied_languages(languages, preset) ==
    SelectSeq(LanguageOrder,
              LAMBDA lang_key : /\ lang_key \in DOMAIN languages
                                /\ lang_key \in DOMAIN preset
                                /\ Get(languages[lang_key], "enabled", FALSE))

\* the lines load_config and save_config print to stderr without PyYAML
YamlWarning(file, has_yaml) ==
    IF file.exists /\ ~has_yaml
    THEN <<"Warning: PyYAML not installed, using defaults">> ELSE <<>>

\* cmd_preset(cfg, None): the presets are listed
PresetsListed(cfg, has_yaml) ==
    /\ config' = cfg
    /\ stderr' = stderr \o YamlWarning(config_file, has_yaml)
    /\ applied' = <<>>
    /\ exit_code' = 0
    /\ UNCHANGED config_file

\* cmd_preset(cfg, preset_name) for a name that is not a preset
PresetUnknown(cfg, preset_name, has_yaml) ==
    /\ config' = cfg
    /\ stderr' = stderr \o YamlWarning(config_file, has_yaml)
                        \o <<"Unknown preset: " \o preset_name,
                             "Available: strict, standard, relaxed, off">>
    /\ applied' = <<>>
    /\ exit_code' = 1
    /\ UNCHANGED config_file

\* cmd_preset(cfg, preset_name) for a preset: the loop, then save_config, which
\* leaves the program without PyYAML, then the report
PresetApplied(cfg, preset, has_yaml) ==
    /\ config' = Put(cfg, "languages", apply_preset(cfg.languages, preset))
    /\ IF has_yaml
       THEN /\ config_file' = ConfigFileOf(config')
            /\ applied' = applied_languages(cfg.languages, preset)
            /\ exit_code' = 0
            /\ UNCHANGED stderr
       ELSE /\ stderr' = stderr \o YamlWarning(config_file, has_yaml)
                               \o <<"Error: PyYAML required for saving config">>
            /\ applied' = <<>>
            /\ exit_code' = 1
            /\ UNCHANGED config_file

\* cmd_preset(cfg, preset_name), with the arguments main() has read
cmd_preset(cfg, args, has_yaml) ==
    IF Len(args) < 3 THEN PresetsListed(cfg, has_yaml)
    ELSE IF args[3] \notin DOMAIN QUALITY_PRESETS
    THEN PresetUnknown(cfg, args[3], has_yaml)
    ELSE PresetApplied(cfg, QUALITY_PRESETS[args[3]], has_yaml)

\* main() of project_config.py for the command preset
PresetMain(args, has_yaml) ==
    /\ menu = "idle"
    /\ argv' = args
    /\ loaded' = load_config(config_file, has_yaml)
    /\ cmd_preset(load_config(config_file, has_yaml), args, has_yaml)
    /\ menu' = "exited"
    /\ UNCHANGED <<environ, pc, engine, content, resolved, evals, passes, result,
                   constructed, fs, raised, api_vars, choices>>

PresetInit ==
    /\ EngineIdle
    /\ CliIdle
    /\ ApiIdle
    /\ config = <<>>
    /\ loaded = <<>>
    /\ config_file \in ConfigFiles
    /\ menu = "idle"
    /\ choices = <<>>
    /\ applied = <<>>

PresetNext == \E args \in PresetArgs : \E has_yaml \in BOOLEAN : PresetMain(args, has_yaml)

PresetSpec == PresetInit /\ [][PresetNext]_vars

(***************************************************************************)
(* edit_config.py: the interactive editor                                  *)
(***************************************************************************)
\* most choices of the main menu before the one that ends the loop
MaxChoices == 2

\* str.strip()
strip(s) == RStrip(LStrip(s))

\* prompt(message, default), answer being the line read
prompt(answer, default) ==
    IF default # ""
    THEN (IF strip(answer) # "" THEN strip(answer) ELSE default)
    ELSE strip(answer)

\* prompt_bool(message, default)
prompt_bool(answer, default) ==
    IF strip(answer) = "" THEN default
    ELSE Lower(strip(answer)) \in {"y", "yes", "true", "1"}

\* int(s) for a text of decimal digits
RECURSIVE decimal(_)
decimal(s) ==
    IF s = "" THEN 0
    ELSE 10 * decimal(SubSeq(s, 1, Len(s) - 1))
         + (Find("0123456789", 1, CharAt(s, Len(s))) - 1)

\* prompt_int(message, default), answer being the line the loop accepts: an
\* empty one or a number from 0 to 100
prompt_int(answer, default) ==
    IF strip(answer) = "" THEN default ELSE decimal(strip(answer))

\* The lines typed in answer to the prompts of one choice: to the prompt that
\* enables, to the prompts for a text, to the prompt for the coverage and to
\* the prompts for lint, typecheck and format.
Answers ==
    {[enable |-> "",      text |-> "",          number |-> "",    flags |-> ""],
     [enable |-> "y",     text |-> "9.9",       number |-> "55",  flags |-> "n"],
     [enable |-> "n",     text |-> "",          number |-> "",    flags |-> ""],
     [enable |-> " Yes ", text |-> " renamed ", number |-> "100", flags |-> ""]}

\* the lines typed at the prompt of the main menu
Lines == {"1", "2", "3", "4", "5", "6", "7", "s", " S ", "q", "x", ""}

\* the quality settings after the prompts of edit_language
edited_quality(quality, lang_key, a, typed) ==
    [k \in DOMAIN quality \cup typed |->
        IF k = "coverage" THEN prompt_int(a.number, Get(quality, "coverage", 80))
        ELSE IF k \in typed THEN prompt_bool(a.flags, Get(quality, k, TRUE))
        ELSE quality[k]]

\* the entry of the language after the prompts of edit_language
edited_language(lang, lang_key, a) ==
    IF ~prompt_bool(a.enable, Get(lang, "enabled", FALSE))
    THEN Put(lang, "enabled", FALSE)
    ELSE Put(Put(Put(lang, "enabled", TRUE),
                 "version", prompt(a.text, Get(lang, "version", ""))),
             "quality",
             edited_quality(Get(lang, "quality", <<>>), lang_key, a,
                            IF lang_key \in {"python", "node"}
                            THEN {"coverage", "lint", "typecheck", "format"}
                            ELSE {"coverage", "lint", "format"}))

\* edit_language(config, lang_key, lang_name)
edit_language(cfg, lang_key, a) ==
    Put(cfg, "languages",
        Put(cfg.languages, lang_key,
            edited_language(Get(cfg.languages, lang_key, <<>>), lang_key, a)))

\* the entry of a service after its prompts in edit_infrastructure
edited_service(service, a, version) ==
    IF ~prompt_bool(a.enable, Get(service, "enabled", FALSE))
    THEN Put(service, "enabled", FALSE)
    ELSE Put(Put(service, "enabled", TRUE),
             "version", prompt(a.text, Get(service, "version", version)))

edited_infrastructure(infra, a) ==
    Put(Put(infra, "postgres", edited_service(Get(infra, "postgres", <<>>), a, "16")),
        "redis", edited_service(Get(infra, "redis", <<>>), a, "7"))

\* edit_infrastructure(config)
edit_infrastructure(cfg, a) ==
    Put(cfg, "infrastructure", edited_infrastructure(Get(cfg, "infrastructure", <<>>), a))

edited_project(project, a) ==
    Put(Put(project, "name", prompt(a.text, Get(project, "name", "my-project"))),
        "description", prompt(a.text, Get(project, "description", "")))

\* the configuration after the branch of main_menu for the choice
edited(cfg, choice, a) ==
    CASE choice = "1" -> edit_language(cfg, "python", a)
      [] choice = "2" -> edit_language(cfg, "go", a)
      [] choice = "3" -> edit_language(cfg, "node", a)
      [] choice = "4" -> edit_language(cfg, "rust", a)
      [] choice = "5" -> edit_infrastructure(cfg, a)
      [] choice = "6" -> Put(cfg, "precommit", ~Get(cfg, "precommit", FALSE))
      [] choice = "7" -> Put(cfg, "project", edited_project(Get(cfg, "project", <<>>), a))
      [] OTHER -> cfg

\* main_menu saves on every choice that ends the loop
menu_saves_on_exit(choice) == choice \in {"s", "q"}

\* main_menu calls save_config
menu_saves(choice) == choice = "s"

\* what main_menu returns: True to continue, False to exit
menu_continues(choice) == choice \notin {"s", "q"}

\* one call of main_menu(config): choice is the line read, stripped and in
\* lower case
menu_choice(choice, a) ==
    /\ menu_continues(choice) => Len(choices) < MaxChoices
    /\ config' = edited(config, choice, a)
    /\ IF menu_saves(choice) THEN config_file' = ConfigFileOf(config)
       ELSE UNCHANGED config_file
    /\ IF menu_continues(choice) THEN UNCHANGED <<menu, exit_code>>
       ELSE menu' = "exited" /\ exit_code' = 0

\* main_menu(config) in the loop of main()
MainMenu(line, a) ==
    /\ menu = "menu"
    /\ choices' = Append(choices, line)
    /\ menu_choice(Lower(strip(line)), a)
    /\ UNCHANGED <<environ, pc, engine, call_vars, constructed, fs, raised, argv,
                   api_vars, loaded, applied>>

\* main() of edit_config.py up to the loop
EditorMain(has_yaml, isatty) ==
    /\ menu = "idle"
    /\ IF has_yaml /\ isatty
       THEN /\ config' = load_config(config_file, has_yaml)
            /\ loaded' = load_config(config_file, has_yaml)
            /\ menu' = "menu"
            /\ UNCHANGED exit_code
       ELSE /\ menu' = "exited"
            /\ exit_code' = 1
            /\ UNCHANGED <<config, loaded>>
    /\ UNCHANGED <<environ, pc, engine, call_vars, constructed, fs, raised, argv,
                   api_vars, config_file, choices, applied>>

\* the files the editor starts with
EditFiles ==
    {NoConfigFile,
     ConfigFileOf([languages |-> Enabling({"go"})]),
     ConfigFileOf([languages |->
                      [python |-> [enabled |-> TRUE,
                                   quality |-> [coverage |-> 95, lint |-> FALSE]]],
                   precommit |-> FALSE])}

EditInit ==
    /\ EngineIdle
    /\ CliIdle
    /\ ApiIdle
    /\ config = <<>>
    /\ loaded = <<>>
    /\ config_file \in EditFiles
    /\ menu = "idle"
    /\ choices = <<>>
    /\ applied = <<>>

EditNext ==
    \/ \E has_yaml \in BOOLEAN : \E isatty \in BOOLEAN : EditorMain(has_yaml, isatty)
    \/ \E line \in Lines : \E a \in Answers : MainMenu(line, a)

EditSpec == EditInit /\ [][EditNext]_vars

(***************************************************************************)
(* Properties                                                              *)
(***************************************************************************)
Done == pc = "done"

\* the value of a condition in the environment of the call
Holds(name) == evaluate_condition(environ, name).val

\* the condition names that occur in the templates
TemplateNames ==
    BlockNames \cup {"IF_B", "IF_NODE", "IF_HAS_SERVICES", "IF_POSTGRES", "IF_REDIS"}
    \cup ConditionNames

\* One conditional tag at position k of s, if any: an opening tag, a closing
\* tag or the else marker
TagAt(s, k) ==
    IF At(s, k, ElseTag) THEN [kind |-> "else", name |-> "", end |-> k + Len(ElseTag)]
    ELSE IF At(s, k, "{{#IF_") \/ At(s, k, "{{/IF_")
    THEN LET e == RunEnd(s, k + 6, CondNameChar)
         IN  IF e > k + 6 /\ At(s, e, "}}")
             THEN [kind |-> IF At(s, k, "{{#") THEN "open" ELSE "close",
                   name |-> SubSeq(s, k + 3, e - 1),
                   end  |-> e + 2]
             ELSE [kind |-> "none"]
    ELSE [kind |-> "none"]

\* position of the first conditional tag of s at or after pos, 0 if none
NextTag(s, pos) == First(LAMBDA k : TagAt(s, k).kind # "none", pos, Len(s))

NoConditionalTags(s) == NextTag(s, 1) = 0

\* The tags of s from pos on are properly nested, given the stack of the open
\* blocks (name, and whether its else was seen).
RECURSIVE Nested(_, _, _)
Nested(s, pos, stack) ==
    LET k == NextTag(s, pos)
        t == TagAt(s, k)
        n == Len(stack)
    IN  IF k = 0 THEN n = 0
        ELSE IF t.kind = "open"
             THEN Nested(s, t.end, Append(stack, [name |-> t.name, else |-> FALSE]))
        ELSE IF t.kind = "else"
             THEN /\ n > 0
                  /\ ~stack[n].else
                  /\ Nested(s, t.end, [stack EXCEPT ![n].else = TRUE])
        ELSE /\ n > 0
             /\ stack[n].name = t.name
             /\ Nested(s, t.end, SubSeq(stack, 1, n - 1))

WellFormed(s) == Nested(s, 1, <<>>)

OpenTags(s, name) == CountFrom(s, 1, OpenTag(name))

\* the opening tags of name in the texts the evaluations dropped
RECURSIVE DroppedOpenTags(_, _)
DroppedOpenTags(log, name) ==
    IF log = <<>> THEN 0
    ELSE OpenTags(log[1].dropped, name) + DroppedOpenTags(Tail(log), name)

Evaluations(log, name) == Cardinality({i \in DOMAIN log : log[i].cond = name})

\* C1: the nested blocks with their own else resolve structurally: with
\* IF_GO true and IF_RUST false the text is exactly YB, with IF_GO false
\* exactly ZA.
C1_NestedElse ==
    (Done /\ content = NestedElseTemplate) =>
        /\ (Holds("IF_GO") /\ ~Holds("IF_RUST")) => resolved = "YB"
        /\ ~Holds("IF_GO") => resolved = "ZA"

C3_SimpleBlock ==
    Done =>
        \A w \in Wraps, name \in BlockNames, b \in Bodies :
            content = Block(w, name, b) =>
                resolved = w[1] \o (IF Holds(name) THEN b.ifb ELSE b.elseb) \o w[2]

C3_Witness ==
    /\ Done
    /\ content = "a {{#IF_GO}}p{{#ELSE}}q{{#ELSE}}r{{/IF_GO}} z"
    /\ ~Holds("IF_GO")
    /\ resolved = "a q{{#ELSE}}r z"

\* C4: an unregistered condition evaluates to false with a warning and
\* processing goes on: its block resolves to the else branch, each evaluation
\* of an unregistered name prints one warning (registered names print none),
\* and the block after it is resolved as usual.
C4_UnknownCondition ==
    Done =>
        /\ \A i \in DOMAIN evals :
              IF evals[i].cond \in ConditionNames
              THEN ~evals[i].warn
              ELSE evals[i].warn /\ ~evals[i].val
        /\ Len(stderr) = Cardinality({i \in DOMAIN evals : evals[i].cond \notin ConditionNames})
        /\ \A i \in DOMAIN stderr :
              \E j \in DOMAIN evals :
                  evals[j].cond \notin ConditionNames /\ stderr[i] = Warning(evals[j].cond)
        /\ \A w \in Wraps, b \in Bodies :
              content = Block(w, "IF_X", b) => resolved = w[1] \o b.elseb \o w[2]
        /\ content = "{{#IF_X}}a{{#ELSE}}b{{/IF_X}} {{#IF_GO}}c{{#ELSE}}d{{/IF_GO}}" =>
              resolved = "b " \o (IF Holds("IF_GO") THEN "c" ELSE "d")

C4_Witness ==
    /\ Done
    /\ content = "{{#IF_X}}a{{#ELSE}}b{{/IF_X}} {{#IF_GO}}c{{#ELSE}}d{{/IF_GO}}"
    /\ resolved = "b c"
    /\ stderr = <<Warning("IF_X")>>
    /\ result = "b c\n"

\* C5: the resolved text of a well-formed template contains no conditional
\* tag.
C5_TagsEliminated ==
    (Done /\ WellFormed(content)) => NoConditionalTags(resolved)

\* the body with one declared placeholder in each branch
PlaceholderBody == [ifb |-> "{{DB_NAME}}", has_else |-> TRUE, elseb |-> "{{DB_USER}}"]

RECURSIVE SumOver(_, _)
SumOver(f, S) ==
    IF S = {} THEN 0
    ELSE LET x == CHOOSE y \in S : TRUE IN f[x] + SumOver(f, S \ {x})

Substitute(t) == process_variables(engine, t)

\* no value of the resolved set holds a brace
BraceFreeValues ==
    \A n \in DOMAIN engine : ~Contains(engine[n], "{") /\ ~Contains(engine[n], "}")

\* position of the first brace of s at or after pos, 0 if none
NextBrace(s, pos) == First(LAMBDA k : CharAt(s, k) \in {"{", "}"}, pos, Len(s))

\* the braces of s from pos on occur only as pairs {{ ... }} with no brace
\* between the two and no further brace next to them
RECURSIVE PairedFrom(_, _)
PairedFrom(s, pos) ==
    LET k == NextBrace(s, pos)
        e == NextBrace(s, k + 2)
    IN  IF k = 0 THEN TRUE
        ELSE /\ At(s, k, "{{")
             /\ e # 0
             /\ At(s, e, "}}")
             /\ PairedFrom(s, e + 2)

PairedBraces(s) == PairedFrom(s, 1)

\* C7 as stated: substitution is idempotent for every text and every
\* resolved set.
C7_Idempotent ==
    Done => Substitute(Substitute(content)) = Substitute(content)

\* C7 as amended: substitution is idempotent for every resolved set whose
\* values hold no brace and every text whose braces occur only as pairs
\* {{ ... }} with no brace inside or next to them.
C7_IdempotentPaired ==
    (Done /\ BraceFreeValues /\ PairedBraces(content)) =>
        Substitute(Substitute(content)) = Substitute(content)

C7_Witness ==
    /\ Done
    /\ content = "{{DB_NAME}}{{DB_NAME}}${{DB_USER}}{{DB_USER}}"
    /\ engine["DB_NAME"] = "prod"
    /\ BraceFreeValues
    /\ PairedBraces(content)
    /\ Substitute(content) = "prodprod${{DB_USER}}app_user"

Placeholder(name) == "{{" \o name \o "}}"

\* lit occurs in s at position k and is not preceded by $
Unblocked(s, k, lit) == At(s, k, lit) /\ (k = 1 \/ CharAt(s, k - 1) # "$")

\* The reference for the substitutor: the occurrences of the placeholders of
\* the names of V that are not preceded by $ are replaced by the values from
\* left to right and nothing else is changed.
RECURSIVE LiteralSubstitute(_, _, _)
LiteralSubstitute(V, s, pos) ==
    LET hits == {k \in pos..Len(s) : \E n \in DOMAIN V : Unblocked(s, k, Placeholder(n))}
        k    == CHOOSE h \in hits : \A g \in hits : h <= g
        name == CHOOSE n \in DOMAIN V : At(s, k, Placeholder(n))
    IN  IF hits = {} THEN SubSeq(s, pos, Len(s))
        ELSE SubSeq(s, pos, k - 1) \o V[name]
             \o LiteralSubstitute(V, s, k + Len(Placeholder(name)))

\* C8: the substitutor changes only the placeholders of the names of the
\* resolved set: unknown placeholders, conditional tags that are left after
\* resolution and all other text are kept as they are, in order.
C8_OnlyDeclaredNames ==
    Done => result = normalize(LiteralSubstitute(engine, resolved, 1))

C8_Witness ==
    /\ Done
    /\ content = "{{#IF_GO}} {{DB_NAME}} {{/IF_RUST}} {{#ELSE}}"
    /\ engine["DB_NAME"] = "prod"
    /\ result = "{{#IF_GO}} prod {{/IF_RUST}} {{#ELSE}}\n"

\* C9: a placeholder preceded by $ is never substituted, also when its name
\* is declared (no occurrence of ${{NAME}} is lost), and every occurrence of a
\* declared placeholder that is not preceded by $ is replaced by its value:
\* the output is the substituted text before it, the value, and the
\* substituted text after it.
C9_DollarGuard ==
    Done =>
        \A n \in DOMAIN engine :
            /\ CountFrom(result, 1, "$" \o Placeholder(n))
                  >= CountFrom(resolved, 1, "$" \o Placeholder(n))
            /\ \A k \in 1..Len(resolved) :
                  Unblocked(resolved, k, Placeholder(n)) =>
                      result = normalize(
                          Substitute(SubSeq(resolved, 1, k - 1))
                          \o engine[n]
                          \o Substitute(SubSeq(resolved, k + Len(Placeholder(n)),
                                               Len(resolved))))

C9_Witness ==
    /\ Done
    /\ content = "$${{DB_NAME}} {{DB_NAME}}"
    /\ engine["DB_NAME"] = "prod"
    /\ result = "$${{DB_NAME}} prod\n"

\* C10: variable resolution is total.  The resolved set holds a string for
\* every declared and every derived name; a declared variable has the value
\* of its key in the environment of the construction when the key is set
\* (also when the value is empty) and its default only when the key is not
\* set.
C10_Total ==
    pc # "start" =>
        /\ DOMAIN engine = DOMAIN VariableDefs \cup DerivedNames
        /\ \A n \in DOMAIN engine : engine[n] \in STRING
        /\ \A n \in DOMAIN VariableDefs :
              engine[n] = IF VariableDefs[n][1] \in DOMAIN constructed
                          THEN constructed[VariableDefs[n][1]]
                          ELSE VariableDefs[n][2]

C10_Witness ==
    /\ pc = "ready"
    /\ "DB_NAME" \in DOMAIN constructed
    /\ constructed["DB_NAME"] = ""
    /\ engine["DB_NAME"] = ""
    /\ engine["DB_USER"] = "app_user"

\* s with every dot removed
RECURSIVE WithoutDots(_)
WithoutDots(s) ==
    LET k == Find(s, 1, ".")
    IN  IF k = 0 THEN s
        ELSE SubSeq(s, 1, k - 1) \o WithoutDots(SubSeq(s, k + 1, Len(s)))

\* the value of a key in the environment the engine was constructed in
Context(key, default) == Get(constructed, key, default)

\* C11: derived variables are computed from the resolved base values and are
\* substituted like base variables: py{{PYTHON_VERSION_NODOT}} yields py312
\* and one newline for PYTHON_VERSION 3.12 (set or by default), and py, the
\* version without its dots and one newline for every other version.
C11_DerivedFromContext ==
    (Done /\ content = "py{{PYTHON_VERSION_NODOT}}") =>
        /\ result = "py" \o WithoutDots(Context("PYTHON_VERSION", "3.12")) \o "\n"
        /\ Context("PYTHON_VERSION", "3.12") = "3.12" => result = "py312\n"

C11_Witness ==
    /\ Done
    /\ content = "py{{PYTHON_VERSION_NODOT}}"
    /\ "PYTHON_VERSION" \in DOMAIN constructed
    /\ constructed["PYTHON_VERSION"] = "3.11.4"
    /\ result = "py3114\n"

\* the text before the second dot of s, s itself when it has less than two dots
FirstTwoComponents(s) ==
    LET k1 == Find(s, 1, ".")
        k2 == IF k1 = 0 THEN 0 ELSE Find(s, k1 + 1, ".")
    IN  IF k2 = 0 THEN s ELSE SubSeq(s, 1, k2 - 1)

\* C12: the derived variables match their reference for every base map.
\* GO_VERSION_SHORT is the first two dot-separated components of GO_VERSION
\* joined by a dot (GO_VERSION itself when it has less than two),
\* PYTHON_VERSION_NODOT is PYTHON_VERSION without its dots, RUST_MSRV is 1.75
\* when RUST_VERSION is exactly stable, nightly or beta and RUST_VERSION
\* otherwise.
C12_DerivedReference ==
    pc # "start" =>
        /\ engine["GO_VERSION_SHORT"] = FirstTwoComponents(engine["GO_VERSION"])
        /\ engine["PYTHON_VERSION_NODOT"] = WithoutDots(engine["PYTHON_VERSION"])
        /\ engine["RUST_MSRV"] =
              IF \/ engine["RUST_VERSION"] = "stable"
                 \/ engine["RUST_VERSION"] = "nightly"
                 \/ engine["RUST_VERSION"] = "beta"
              THEN "1.75"
              ELSE engine["RUST_VERSION"]
        /\ engine["GO_VERSION"] = Context("GO_VERSION", "1.22.0")
        /\ engine["PYTHON_VERSION"] = Context("PYTHON_VERSION", "3.12")
        /\ engine["RUST_VERSION"] = Context("RUST_VERSION", "stable")

C12_Witness ==
    /\ Done
    /\ content = "{{GO_VERSION_SHORT}}-{{RUST_MSRV}}-{{PYTHON_VERSION_NODOT}}"
    /\ engine["GO_VERSION"] = "1.2.3.4"
    /\ result = "1.2-1.75-312\n"

\* C13: IF_HAS_SERVICES is true exactly when IF_POSTGRES or IF_REDIS is, in
\* every environment: in one run over the three blocks the first evaluation
\* is the disjunction of the other two, and the services template yields
\* services: yes exactly then (so with INCLUDE_POSTGRES true and
\* INCLUDE_REDIS false it yields services: yes and one newline).
C13_HasServices ==
    Done =>
        /\ content = AllServicesTemplate =>
              /\ Len(evals) = 3
              /\ evals[1].cond = "IF_HAS_SERVICES"
              /\ evals[2].cond = "IF_POSTGRES"
              /\ evals[3].cond = "IF_REDIS"
              /\ evals[1].val = (evals[2].val \/ evals[3].val)
        /\ content = ServicesTemplate =>
              result = IF Holds("IF_POSTGRES") \/ Holds("IF_REDIS")
                       THEN "services: yes\n"
                       ELSE "services: no\n"
        /\ (/\ content = ServicesTemplate
            /\ environ = [INCLUDE_POSTGRES |-> "true", INCLUDE_REDIS |-> "false"]) =>
              result = "services: yes\n"

C13_Witness ==
    /\ Done
    /\ content = ServicesTemplate
    /\ environ = [INCLUDE_POSTGRES |-> "true", INCLUDE_REDIS |-> "false"]
    /\ result = "services: yes\n"

AllWhitespace(s) == \A k \in 1..Len(s) : CharAt(s, k) \in WHITESPACE

\* C14: the output ends with exactly one newline and no whitespace precedes
\* it; it is the substituted text without its trailing whitespace, so a text
\* that is empty or all whitespace yields the single newline.
C14_Normalized ==
    Done =>
        LET n    == Len(result)
            text == Substitute(resolved)
        IN  /\ n >= 1
            /\ CharAt(result, n) = "\n"
            /\ n > 1 => CharAt(result, n - 1) \notin WHITESPACE
            /\ n - 1 <= Len(text)
            /\ SubSeq(result, 1, n - 1) = SubSeq(text, 1, n - 1)
            /\ AllWhitespace(SubSeq(text, n, Len(text)))
            /\ AllWhitespace(text) => result = "\n"

C14_Witness ==
    /\ Done
    /\ content = "x{{DB_USER}}"
    /\ engine["DB_USER"] = "u \n "
    /\ result = "xu\n"

\* the evaluations lo..hi of the trace that one invocation makes itself: the
\* first, then the first after the evaluations inside its recursive call,
\* and so on
RECURSIVE Own(_, _, _)
Own(log, lo, hi) ==
    IF lo > hi THEN {} ELSE {lo} \cup Own(log, lo + 1 + log[lo].inner, hi)

\* One invocation of the resolver on text that made n passes and the
\* evaluations own: at most 20 passes; every pass but the last made a
\* replacement (the texts the matches were found in differ from pass to
\* pass), and the last made none unless it was the 20th; every selected
\* branch is shorter than the text its block was found in, which is no
\* longer than the text of the invocation.
Invocation(log, text, n, own) ==
    LET replacing == Cardinality({log[i].within : i \in own})
    IN  /\ n >= 1
        /\ n <= 20
        /\ n = replacing + 1 \/ (n = 20 /\ replacing = 20)
        /\ \A i \in own :
              /\ Len(log[i].selected) < Len(log[i].within)
              /\ Len(log[i].within) <= Len(text)

\* C15: the resolver terminates.  The call of process_string and every
\* recursive call make at most 20 passes and stop at the first pass without
\* a replacement, and every recursive call is on a selected branch that is
\* strictly shorter than the text that contained it.
C15_Terminates ==
    Done =>
        /\ Invocation(evals, content, passes, Own(evals, 1, Len(evals)))
        /\ \A i \in DOMAIN evals :
              Invocation(evals, evals[i].selected, evals[i].passes,
                         Own(evals, i + 1, i + evals[i].inner))

\* the passes run out on the deep nest: the 20th still makes a replacement
C15_Witness ==
    /\ Done
    /\ content = DeepNestTemplate
    /\ Holds("IF_GO")
    /\ passes = 20
    /\ Cardinality({evals[i].within : i \in Own(evals, 1, Len(evals))}) = 20
    /\ \A i \in DOMAIN evals : evals[i].passes = 1

\* s holds an opening tag that is followed by a closing tag of its name
HasPair(s) ==
    \E k \in 1..Len(s) :
        /\ TagAt(s, k).kind = "open"
        /\ Find(s, TagAt(s, k).end, CloseTag(TagAt(s, k).name)) # 0

\* C16: a text without an opening tag that is followed by a closing tag of
\* the identical name is returned unchanged by the resolver: mismatched
\* names, names with lowercase letters or digits and an else marker outside
\* a block stay as they are, no condition is evaluated and nothing is printed.
C16_UnpairedUnchanged ==
    (Done /\ ~HasPair(content)) =>
        /\ resolved = content
        /\ evals = <<>>
        /\ passes = 1
        /\ stderr = <<>>

C16_Witness ==
    /\ Done
    /\ content = "{{#IF_Go}}a{{/IF_Go}} {{#IF_G0}}b{{/IF_G0}} {{#if_GO}}c{{/if_GO}}"
    /\ ~HasPair(content)
    /\ resolved = content
    /\ result = content \o "\n"

\* C17: the registries are fixed at construction.  The variables and the
\* result of process_string are those of the environment the engine was
\* constructed in, whatever the environment is at the call.
C17_FixedAtConstruction ==
    Done =>
        /\ engine = load_variables(constructed)
        /\ result = process_string(constructed, engine, content).out

\* a call of process_file is made in this step
FileCall == pc = "ready" /\ pc' = "done"

\* C18: process_file is all-or-nothing on the output.  After a call the
\* output path holds the complete result of process_string or is as it was
\* before the call.
C18_AllOrNothing ==
    [][FileCall =>
          \/ fs'.output = fs.output
          \/ /\ fs.input.kind = "file"
             /\ fs'.output = [kind |-> "file", text |-> result']]_vars

\* C19: when the input is missing or cannot be read, process_file fails with
\* a TemplateError that carries the input path, and the file system is left
\* as it was.
C19_ReadFailure ==
    [][(FileCall /\ fs.input.kind # "file") =>
          /\ raised' = TemplateError(InputPath)
          /\ fs' = fs]_vars

\* C20: when the creation of the parent directories or the write fails,
\* process_file raises a TemplateError whose file is the output path.  With a
\* readable input every call either leaves no exception and the complete
\* result in the output path, or leaves that error: no failure of the write
\* step is swallowed and none carries the input path.
C20_WriteFailure ==
    (Done /\ fs.input.kind = "file") =>
        \/ /\ raised = NoException
           /\ fs.parent = "dir"
           /\ fs.output = [kind |-> "file", text |-> result]
        \/ raised = [type |-> "TemplateError", file |-> OutputPath]

\* the write fails after the file was truncated
C20_Witness ==
    /\ Done
    /\ fs.input = [kind |-> "file", text |-> "hello {{DB_NAME}}  \n\n"]
    /\ result = "hello prod\n"
    /\ fs.output = [kind |-> "file", text |-> "he"]
    /\ raised = [type |-> "TemplateError", file |-> OutputPath]

\* C21: main() returns 0 exactly when it was given two arguments and
\* process_file returned without an exception, the output file then holding
\* the processed text; in every other case (a wrong number of arguments, a
\* TemplateError, any other exception) it returns 1 and has printed to the
\* standard error.
C21_ExitCode ==
    pc = "exited" =>
        /\ exit_code \in {0, 1}
        /\ exit_code = 0 <=> (Len(argv) = 3 /\ raised = NoException)
        /\ exit_code = 0 =>
               /\ fs.input.kind = "file"
               /\ fs.output = [kind |-> "file", text |-> result]
               /\ result = process_string(environ, engine, fs.input.text).out
        /\ exit_code = 1 => stderr # <<>>
        /\ Len(argv) # 3 => engine = <<>> /\ fs \in FileSystems /\ raised = NoException

\* main() has caught an exception that is not a TemplateError
C21_Witness ==
    /\ pc = "exited"
    /\ exit_code = 1
    /\ Len(argv) = 3
    /\ raised.type = "OSError"

\* the items the store holds, in the order of their insertion
StoredItems == dict_values(items)

\* C22: At any moment the ids create_item has assigned since the last reset
\* are 1, 2, ..., n in the order of creation, none twice; the store holds n
\* items, each under its own id; the next id is n + 1; and the answer of
\* list_items holds all n items with count n, an empty list and count 0 when
\* nothing was created since the reset.
C22_ItemStore ==
    LET n == Len(created) IN
    /\ \A i \in 1..n : created[i].id = i
    /\ Len(items) = n
    /\ \A i \in 1..n : items[i].key = items[i].value.id /\ items[i].key = i
    /\ next_id = n + 1
    /\ response.op = "list_items" =>
           /\ response.status = 200
           /\ response.body.count = n
           /\ Len(response.body.items) = n
           /\ \A i \in 1..n : response.body.items[i].id = i
           /\ \A i \in 1..n : response.body.items[i].name = created[i].body.name

\* list_items has answered with two items of different names
C22_Witness ==
    /\ response.op = "list_items"
    /\ response.body.count = 2
    /\ response.body.items[1].name # response.body.items[2].name

\* the creation, since the last reset, that was assigned the id
CreatedAs(item_id) == {i \in 1..Len(created) : created[i].id = item_id}

\* the request body was rejected for its price
BadPrice(body) == "price" \notin DOMAIN body \/ body.price <= 0

\* C23: get_item answers 404 exactly when the id was not assigned since the
\* last reset, and otherwise 200 with the item created under that id, with
\* the name and the price of its creation; a request answered 404 and a
\* creation with a missing price or a price not greater than 0, which is
\* answered 422, leave the store and the next id as they were.
C23_GetItem ==
    /\ [](response.op = "get_item" =>
            /\ response.status = 404 <=> CreatedAs(response.request) = {}
            /\ response.status # 404 =>
                   /\ response.status = 200
                   /\ response.body.id = response.request
                   /\ \A i \in CreatedAs(response.request) :
                          /\ response.body.name = created[i].body.name
                          /\ response.body.price = created[i].body.price)
    /\ [][(\/ response'.status = 404
           \/ response'.op = "create_item" /\ BadPrice(response'.request))
          => /\ response'.status \in {404, 422}
             /\ items' = items
             /\ next_id' = next_id]_vars

\* get_item has answered 404 for an id of a store that holds items
C23_Witness ==
    /\ response.op = "get_item"
    /\ response.status = 404
    /\ Len(items) = 2

\* the block of evaluation j was matched in the branch that the evaluation i
\* selected: block j is nested in block i
NestedIn(log, j, i) ==
    /\ i # j
    /\ log[j].within = log[i].selected

\* C24: Nested conditionals are processed innermost first: of two evaluated
\* blocks of which one is nested in the other, the condition of the inner
\* block is evaluated before the condition of the enclosing block.
C24_InnermostFirst ==
    Done =>
        \A i \in DOMAIN evals : \A j \in DOMAIN evals :
            NestedIn(evals, j, i) => j < i

\* the text one more scan-and-replace pass makes of the resolved text
OneMorePass == sub_conditionals(environ, resolved, 1).out

\* C25: The ceiling of 20 passes is reached before a fixed point: for a true
\* condition nested in itself 21 levels deep the resolver makes 20 passes and
\* returns, with no exception and nothing printed, a text that still holds a
\* block and that one more pass would change.
C25_CeilingReached ==
    (Done /\ content = DeepNestTemplate /\ Holds("IF_GO")) =>
        /\ passes = 20
        /\ OneMorePass # resolved
        /\ HasPair(resolved)
        /\ Contains(result, OpenTag("IF_GO"))
        /\ stderr = <<>>
        /\ raised = NoException

C25_Witness ==
    /\ Done
    /\ content = DeepNestTemplate
    /\ Holds("IF_GO")
    /\ passes = 20
    /\ OneMorePass # resolved

\* The tree of a text: a sequence of nodes, a node being a literal text or a
\* conditional with its name, its two branches and whether it has an else.
Literal(text) == [kind |-> "literal", text |-> text]

Conditional(name, ifBranch, has_else, elseBranch) ==
    [kind |-> "conditional", name |-> name, ifBranch |-> ifBranch,
     has_else |-> has_else, elseBranch |-> elseBranch]

\* Recursive descent from pos: the nodes up to the end of the text or to the
\* else marker or closing tag that ends the branch, what ended it and the
\* position after it.
RECURSIVE Parse(_, _)
Parse(s, pos) ==
    LET k == NextTag(s, pos)
        t == TagAt(s, k)
    IN  IF k = 0
        THEN [nodes |-> <<Literal(SubSeq(s, pos, Len(s)))>>,
              stop |-> "end", next |-> Len(s) + 1]
        ELSE IF t.kind # "open"
        THEN [nodes |-> <<Literal(SubSeq(s, pos, k - 1))>>,
              stop |-> t.kind, next |-> t.end]
        ELSE LET ifBranch == Parse(s, t.end)
                 elseBranch == IF ifBranch.stop = "else" THEN Parse(s, ifBranch.next)
                               ELSE [nodes |-> <<>>, stop |-> ifBranch.stop,
                                     next |-> ifBranch.next]
                 rest == Parse(s, elseBranch.next)
             IN  [nodes |-> <<Literal(SubSeq(s, pos, k - 1)),
                              Conditional(t.name, ifBranch.nodes,
                                          ifBranch.stop = "else", elseBranch.nodes)>>
                            \o rest.nodes,
                  stop |-> rest.stop, next |-> rest.next]

Tree(s) == Parse(s, 1).nodes

\* the structural evaluation of a sequence of nodes: the text, and the
\* conditions evaluated, in order
RECURSIVE Fold(_, _)
Fold(nodes, env) ==
    IF nodes = <<>> THEN [out |-> "", conds |-> <<>>]
    ELSE LET n == nodes[1]
             rest == Fold(Tail(nodes), env)
         IN  IF n.kind = "literal"
             THEN [out |-> n.text \o rest.out, conds |-> rest.conds]
             ELSE LET branch ==
                          Fold(IF evaluate_condition(env, n.name).val
                               THEN n.ifBranch ELSE n.elseBranch, env)
                  IN  [out |-> branch.out \o rest.out,
                       conds |-> <<n.name>> \o branch.conds \o rest.conds]

\* The tags of s from pos on are properly nested, given the stack of the open
\* blocks; no block is opened inside a block of its name; and an else marker
\* is met only while every enclosing block is in its else branch, so that
\* the first else marker inside a block is the block's own.
RECURSIVE Restricted(_, _, _)
Restricted(s, pos, stack) ==
    LET k == NextTag(s, pos)
        t == TagAt(s, k)
        n == Len(stack)
    IN  IF k = 0 THEN n = 0
        ELSE IF t.kind = "open"
             THEN /\ \A i \in 1..n : stack[i].name # t.name
                  /\ Restricted(s, t.end, Append(stack, [name |-> t.name, else |-> FALSE]))
        ELSE IF t.kind = "else"
             THEN /\ n > 0
                  /\ ~stack[n].else
                  /\ \A i \in 1..(n - 1) : stack[i].else
                  /\ Restricted(s, t.end, [stack EXCEPT ![n].else = TRUE])
        ELSE /\ n > 0
             /\ stack[n].name = t.name
             /\ Restricted(s, t.end, SubSeq(stack, 1, n - 1))

\* the condition names of a trace, in the order of the evaluations
CondsOf(log) == [i \in DOMAIN log |-> log[i].cond]

\* C26: For a well-formed template in which no block holds a nested block of
\* its own name and in which the first else marker inside every block is the
\* block's own, the resolver returns the text that the structural evaluation
\* of the parsed tree returns, in every environment, and it evaluates the
\* conditions that evaluation evaluates, in the same order.
C26_StructuralFold ==
    (Done /\ Restricted(content, 1, <<>>)) =>
        /\ WellFormed(content)
        /\ resolved = Fold(Tree(content), environ).out
        /\ CondsOf(evals) = Fold(Tree(content), environ).conds

\* three levels of blocks, the innermost one evaluated in an else branch
C26_Witness ==
    /\ Done
    /\ content = ThreeLevelTemplate
    /\ Restricted(content, 1, <<>>)
    /\ CondsOf(evals) = <<"IF_RUST", "IF_GO", "IF_X">>
    /\ resolved = "fg"

\* the text is a decimal integer greater than 0, as int() reads it: digits,
\* not all of them 0, after an optional plus sign, with whitespace around
PositiveInteger(s) ==
    LET t == RStrip(LStrip(s))
        d == IF t # "" /\ CharAt(t, 1) = "+" THEN SubSeq(t, 2, Len(t)) ELSE t
    IN  /\ d # ""
        /\ \A k \in 1..Len(d) : CharAt(d, k) \in DIGIT
        /\ \E k \in 1..Len(d) : CharAt(d, k) # "0"

\* C27: IF_COVERAGE_ENABLED agrees with the value substituted for
\* {{COVERAGE_THRESHOLD}} in every environment, also when the key is absent:
\* the condition is true exactly when the substituted value is an integer
\* greater than 0; a value that is not a number makes it false and nothing
\* is raised.
C27_CoverageAgrees ==
    (Done /\ content = CoverageTemplate) =>
        /\ evals[1].cond = "IF_COVERAGE_ENABLED"
        /\ evals[1].val <=> PositiveInteger(engine["COVERAGE_THRESHOLD"])
        /\ result = RStrip((IF evals[1].val THEN "on " ELSE "off ")
                            \o engine["COVERAGE_THRESHOLD"]) \o "\n"
        /\ raised = NoException

\* the key of the environment a toggle reads
ToggleKey(name) == "INCLUDE_" \o SubSeq(name, 4, Len(name))

\* the text is true, in any letter case
IsTrueIgnoringCase(v) ==
    /\ Len(v) = 4
    /\ CharAt(v, 1) \in {"t", "T"}
    /\ CharAt(v, 2) \in {"r", "R"}
    /\ CharAt(v, 3) \in {"u", "U"}
    /\ CharAt(v, 4) \in {"e", "E"}

\* the toggle is switched on in the environment
SwitchedOn(name) ==
    /\ ToggleKey(name) \in DOMAIN environ
    /\ IsTrueIgnoringCase(environ[ToggleKey(name)])

\* C28: Each condition built by _env_is_true is true exactly when its own
\* key is present in the environment with a value equal to true ignoring
\* letter case; with the key absent or holding any other value (1, yes,
\* true with spaces around it) it is false, whatever the other keys hold.
C28_Toggles ==
    Done =>
        /\ \A k \in DOMAIN ToggleNames :
              Holds(ToggleNames[k]) <=> SwitchedOn(ToggleNames[k])
        /\ \A i \in DOMAIN evals :
              (\E k \in DOMAIN ToggleNames : ToggleNames[k] = evals[i].cond) =>
                  (evals[i].val <=> SwitchedOn(evals[i].cond))
        /\ content = TogglesTemplate =>
              /\ Len(evals) = Len(ToggleNames)
              /\ \A k \in DOMAIN ToggleNames :
                    /\ evals[k].cond = ToggleNames[k]
                    /\ CharAt(resolved, k) = (IF SwitchedOn(ToggleNames[k]) THEN "1" ELSE "0")

\* the key holds true with spaces around it: the toggle is off
C28_Witness ==
    /\ Done
    /\ content = TogglesTemplate
    /\ environ = [INCLUDE_PYTHON |-> " true "]
    /\ resolved = "000000000000000"

\* cmd_preset has applied a known preset and has returned
PresetDone ==
    /\ menu = "exited"
    /\ Len(argv) = 3
    /\ argv[2] = "preset"
    /\ argv[3] \in DOMAIN QUALITY_PRESETS
    /\ exit_code = 0

\* the elements of a sequence
Range(seq) == {seq[i] : i \in DOMAIN seq}

\* the language was enabled in the configuration the command loaded
WasEnabled(lang_key) == Get(loaded.languages[lang_key], "enabled", FALSE)

\* C30: A known preset replaces the quality settings of the enabled languages
\* by the values of the preset and of no other language: the quality settings
\* of a disabled language are in the file what they were, and the languages
\* reported as updated are the languages whose settings were replaced.
C30_PresetFrame ==
    PresetDone =>
        \A lang_key \in DOMAIN loaded.languages :
            /\ (WasEnabled(lang_key) /\ lang_key \in DOMAIN QUALITY_PRESETS[argv[3]]) =>
                   config_file.data.languages[lang_key].quality
                       = QUALITY_PRESETS[argv[3]][lang_key]
            /\ ~WasEnabled(lang_key) =>
                   config_file.data.languages[lang_key].quality
                       = loaded.languages[lang_key].quality
            /\ lang_key \in Range(applied) <=>
                   (WasEnabled(lang_key) /\ lang_key \in DOMAIN QUALITY_PRESETS[argv[3]])

\* the choice of a line typed at the main menu
ChoiceOf(line) == Lower(RStrip(LStrip(line)))

\* the choices of the main menu that edit the configuration
EditChoices == {"1", "2", "3", "4", "5", "6", "7"}

\* the choices made so far that toggled the pre-commit hooks
PrecommitToggles == Cardinality({i \in DOMAIN choices : ChoiceOf(choices[i]) = "6"})

\* the editor has left the loop after the choice c
ExitedBy(c) ==
    /\ menu = "exited"
    /\ choices # <<>>
    /\ ChoiceOf(choices[Len(choices)]) = c

\* a step of the main menu, and the choice made in it
MenuStep == menu = "menu" /\ Len(choices') = Len(choices) + 1

StepChoice == ChoiceOf(choices'[Len(choices')])

\* C29: The editor writes the configuration file only on the choice s.  The
\* file changes in no other step; s writes the configuration in memory, with
\* every edit made before it, and ends the loop; q ends the loop and leaves
\* the file as it was; no other choice ends the loop; and a choice that is
\* not in the menu changes neither the configuration nor the file.
C29_SaveOnlyOnS ==
    /\ [](/\ (menu = "menu" \/ ExitedBy("q")) =>
                load_config(config_file, TRUE) = loaded
          /\ ExitedBy("s") =>
                /\ config_file = [exists |-> TRUE, data |-> config]
                /\ config.precommit = (loaded.precommit <=> PrecommitToggles % 2 = 0)
                /\ exit_code = 0)
    /\ [][/\ config_file' # config_file => (MenuStep /\ StepChoice = "s")
          /\ (menu = "menu" /\ menu' # "menu") =>
                (MenuStep /\ StepChoice \in {"s", "q"})
          /\ (MenuStep /\ StepChoice = "s") =>
                (menu' = "exited" /\ config_file' = [exists |-> TRUE, data |-> config])
          /\ (MenuStep /\ StepChoice = "q") =>
                (menu' = "exited" /\ config_file' = config_file)
          /\ (MenuStep /\ StepChoice \notin EditChoices \cup {"s", "q"}) =>
                (menu' = "menu" /\ config' = config /\ config_file' = config_file)
         ]_vars

\* two edits, then s: the file holds them
C29_Witness ==
    /\ ExitedBy("s")
    /\ Len(choices) = 3
    /\ ChoiceOf(choices[1]) = "6"
    /\ ChoiceOf(choices[2]) = "1"
    /\ config_file.data.precommit # loaded.precommit
    /\ config_file.data.languages.python # loaded.languages.python

====
